---- MODULE Spec2Model ----
(***************************************************************************)
(* A model of the YAML scanner and document parser of YAMLParser.cpp.      *)
(*                                                                         *)
(* The input is a sequence of bytes.  Positions are 0-based offsets into   *)
(* the input, as the StringRef::iterator values of the source are offsets  *)
(* from the buffer start; End is the offset one past the last byte.  The   *)
(* buffer is a MemoryBuffer, which is NUL terminated: the byte at End is 0.*)
(* The token queue is an ilist whose nodes come from a bump allocator:     *)
(* a token is named by its slot in the arena, a slot keeps its content     *)
(* until it is written again, and Alloc.Reset() makes the slots reusable.  *)
(***************************************************************************)
EXTENDS Integers, Sequences, FiniteSets, TLC

VARIABLES Input, sc, ret, st

vars == <<Input, sc, ret, st>>

----------------------------------------------------------------------------
(* Bytes the scanner tests for. *)
CH_NUL == 0
CH_TAB == 9
CH_LF == 10
CH_CR == 13
CH_SP == 32
CH_BANG == 33
CH_DQUOTE == 34
CH_HASH == 35
CH_PERCENT == 37
CH_AMP == 38
CH_SQUOTE == 39
CH_STAR == 42
CH_COMMA == 44
CH_MINUS == 45
CH_DOT == 46
CH_COLON == 58
CH_LT == 60
CH_GT == 62
CH_QUESTION == 63
CH_AT == 64
CH_A == 65
CH_L == 76
CH_M == 77
CH_Y == 89
CH_LBRACKET == 91
CH_BACKSLASH == 92
CH_RBRACKET == 93
CH_BACKTICK == 96
CH_a == 97
CH_b == 98
CH_LBRACE == 123
CH_PIPE == 124
CH_RBRACE == 125

(* removeStaleSimpleKeyCandidates: a candidate lives for 1024 columns. *)
SimpleKeyMaxColumns == 1024

End == Len(Input)

(* *Position.  The byte at End is the buffer's NUL terminator; a read     *)
(* past it is outside the buffer and is modelled as reading zeroed memory  *)
(* (the other outcome, a crash, is offered by the actions, see Outcomes).  *)
Ch(p) == IF p >= 0 /\ p < End THEN Input[p + 1] ELSE CH_NUL

----------------------------------------------------------------------------
(* Tokens. *)
NullRange == [b |-> -1, n |-> 0]

Range(b, n) == [b |-> b, n |-> n]

Tok(Kind, R) == [Kind |-> Kind, Range |-> R]

(* Token() : Kind(TK_Error), Range() *)
ErrorToken == Tok("TK_Error", NullRange)

----------------------------------------------------------------------------
(* getUnicodeEncoding with the test for FF FE made before the one for      *)
(* FF FE 00 00.                                                            *)
getUnicodeEncodingUTF16First(In) ==
  LET n == Len(In)
      B(i) == In[i + 1]
  IN IF n = 0 THEN [form |-> "UEF_Unknown", len |-> 0]
     ELSE CASE B(0) = 0 ->
                 IF n >= 4 /\ B(1) = 0 /\ B(2) = 254 /\ B(3) = 255
                   THEN [form |-> "UEF_UTF32_BE", len |-> 4]
                 ELSE IF n >= 4 /\ B(1) = 0 /\ B(2) = 0 /\ B(3) # 0
                   THEN [form |-> "UEF_UTF32_BE", len |-> 0]
                 ELSE IF n >= 2 /\ B(1) # 0
                   THEN [form |-> "UEF_UTF16_BE", len |-> 0]
                 ELSE [form |-> "UEF_Unknown", len |-> 0]
            [] B(0) = 255 ->
                 IF n >= 2 /\ B(1) = 254
                   THEN [form |-> "UEF_UTF16_LE", len |-> 2]
                 ELSE IF n >= 4 /\ B(1) = 254 /\ B(2) = 0 /\ B(3) = 0
                   THEN [form |-> "UEF_UTF32_LE", len |-> 4]
                 ELSE [form |-> "UEF_Unknown", len |-> 0]
            [] B(0) = 254 ->
                 IF n >= 2 /\ B(1) = 255
                   THEN [form |-> "UEF_UTF16_BE", len |-> 2]
                 ELSE [form |-> "UEF_Unknown", len |-> 0]
            [] B(0) = 239 ->
                 IF n >= 3 /\ B(1) = 187 /\ B(2) = 191
                   THEN [form |-> "UEF_UTF8", len |-> 3]
                 ELSE [form |-> "UEF_Unknown", len |-> 0]
            [] OTHER ->
                 IF n >= 4 /\ B(1) = 0 /\ B(2) = 0 /\ B(3) = 0
                   THEN [form |-> "UEF_UTF32_LE", len |-> 0]
                 ELSE IF n >= 2 /\ B(1) = 0
                   THEN [form |-> "UEF_UTF16_LE", len |-> 0]
                 ELSE [form |-> "UEF_UTF8", len |-> 0]

(* getUnicodeEncoding without the test for a byte and a null byte. *)
getUnicodeEncodingNoUTF16(In) ==
  LET n == Len(In)
      B(i) == In[i + 1]
  IN IF n = 0 THEN [form |-> "UEF_Unknown", len |-> 0]
     ELSE CASE B(0) = 0 ->
                 IF n >= 4 /\ B(1) = 0 /\ B(2) = 254 /\ B(3) = 255
                   THEN [form |-> "UEF_UTF32_BE", len |-> 4]
                 ELSE IF n >= 4 /\ B(1) = 0 /\ B(2) = 0 /\ B(3) # 0
                   THEN [form |-> "UEF_UTF32_BE", len |-> 0]
                 ELSE IF n >= 2 /\ B(1) # 0
                   THEN [form |-> "UEF_UTF16_BE", len |-> 0]
                 ELSE [form |-> "UEF_Unknown", len |-> 0]
            [] B(0) = 255 ->
                 IF n >= 4 /\ B(1) = 254 /\ B(2) = 0 /\ B(3) = 0
                   THEN [form |-> "UEF_UTF32_LE", len |-> 4]
                 ELSE IF n >= 2 /\ B(1) = 254
                   THEN [form |-> "UEF_UTF16_LE", len |-> 2]
                 ELSE [form |-> "UEF_Unknown", len |-> 0]
            [] B(0) = 254 ->
                 IF n >= 2 /\ B(1) = 255
                   THEN [form |-> "UEF_UTF16_BE", len |-> 2]
                 ELSE [form |-> "UEF_Unknown", len |-> 0]
            [] B(0) = 239 ->
                 IF n >= 3 /\ B(1) = 187 /\ B(2) = 191
                   THEN [form |-> "UEF_UTF8", len |-> 3]
                 ELSE [form |-> "UEF_Unknown", len |-> 0]
            [] OTHER ->
                 IF n >= 4 /\ B(1) = 0 /\ B(2) = 0 /\ B(3) = 0
                   THEN [form |-> "UEF_UTF32_LE", len |-> 0]
                 ELSE [form |-> "UEF_UTF8", len |-> 0]

(* getUnicodeEncoding: the encoding form and the length of the BOM. *)
getUnicodeEncoding(In) ==
  LET n == Len(In)
      B(i) == In[i + 1]
  IN IF n = 0 THEN [form |-> "UEF_Unknown", len |-> 0]
     ELSE CASE B(0) = 0 ->
                 IF n >= 4 /\ B(1) = 0 /\ B(2) = 254 /\ B(3) = 255
                   THEN [form |-> "UEF_UTF32_BE", len |-> 4]
                 ELSE IF n >= 4 /\ B(1) = 0 /\ B(2) = 0 /\ B(3) # 0
                   THEN [form |-> "UEF_UTF32_BE", len |-> 0]
                 ELSE IF n >= 2 /\ B(1) # 0
                   THEN [form |-> "UEF_UTF16_BE", len |-> 0]
                 ELSE [form |-> "UEF_Unknown", len |-> 0]
            [] B(0) = 255 ->
                 IF n >= 4 /\ B(1) = 254 /\ B(2) = 0 /\ B(3) = 0
                   THEN [form |-> "UEF_UTF32_LE", len |-> 4]
                 ELSE IF n >= 2 /\ B(1) = 254
                   THEN [form |-> "UEF_UTF16_LE", len |-> 2]
                 ELSE [form |-> "UEF_Unknown", len |-> 0]
            [] B(0) = 254 ->
                 IF n >= 2 /\ B(1) = 255
                   THEN [form |-> "UEF_UTF16_BE", len |-> 2]
                 ELSE [form |-> "UEF_Unknown", len |-> 0]
            [] B(0) = 239 ->
                 IF n >= 3 /\ B(1) = 187 /\ B(2) = 191
                   THEN [form |-> "UEF_UTF8", len |-> 3]
                 ELSE [form |-> "UEF_Unknown", len |-> 0]
            [] OTHER ->
                 IF n >= 4 /\ B(1) = 0 /\ B(2) = 0 /\ B(3) = 0
                   THEN [form |-> "UEF_UTF32_LE", len |-> 0]
                 ELSE IF n >= 2 /\ B(1) = 0
                   THEN [form |-> "UEF_UTF16_LE", len |-> 0]
                 ELSE [form |-> "UEF_UTF8", len |-> 0]

(* decodeUTF8 at Position: the scalar value cp and the length len in code  *)
(* units of the well-formed subsequence there; len = 0 is an error.  b0 to *)
(* b3 are the bytes at p to p + 3.                                         *)
decodeUTF8_bytes(p, b0, b1, b2, b3) ==
  LET Cont(x) == x >= 128 /\ x <= 191 IN
  IF b0 < 128 THEN [cp |-> b0, len |-> 1]
  ELSE IF b0 >= 194 /\ b0 <= 223 /\ p + 1 # End /\ Cont(b1)
    THEN [cp |-> (b0 % 32) * 64 + (b1 % 64), len |-> 2]
  ELSE IF b0 >= 224 /\ b0 <= 239 /\ p + 2 < End
          /\ ~(b0 = 224 /\ (b1 < 160 \/ b1 > 191))
          /\ ~(b0 >= 225 /\ b0 <= 236 /\ (b1 < 128 \/ b1 > 191))
          /\ ~(b0 = 237 /\ (b1 < 128 \/ b1 > 159))
          /\ ~(b0 >= 238 /\ (b1 < 128 \/ b1 > 191))
          /\ Cont(b2)
    THEN [cp |-> (b0 % 16) * 4096 + (b1 % 64) * 64 + (b2 % 64), len |-> 3]
  ELSE IF b0 >= 240 /\ b0 <= 247 /\ p + 3 < End
          /\ ~(b0 = 240 /\ (b1 < 144 \/ b1 > 191))
          /\ ~(b0 >= 241 /\ b0 <= 243 /\ (b1 < 128 \/ b1 > 191))
          /\ ~(b0 = 244 /\ (b1 < 128 \/ b1 > 143))
          /\ Cont(b2) /\ Cont(b3)
    THEN [cp |-> (b0 % 8) * 262144 + (b1 % 64) * 4096 + (b2 % 64) * 64
                   + (b3 % 64), len |-> 4]
  ELSE [cp |-> 0, len |-> 0]

decodeUTF8(p) == decodeUTF8_bytes(p, Ch(p), Ch(p + 1), Ch(p + 2), Ch(p + 3))

(* skip_nb_char on a byte with its high bit set: u8d is decodeUTF8 there. *)
skip_nb_char_utf8(p, u8d) ==
  IF u8d.len # 0 /\ u8d.cp # 65279
     /\ (u8d.cp = 133 \/ (u8d.cp >= 160 /\ u8d.cp <= 55295)
         \/ (u8d.cp >= 57344 /\ u8d.cp <= 65533)
         \/ (u8d.cp >= 65536 /\ u8d.cp <= 1114111))
    THEN p + u8d.len
    ELSE p

skip_nb_char(p) ==
  IF Ch(p) = CH_TAB \/ (Ch(p) >= 32 /\ Ch(p) <= 126) THEN p + 1
  ELSE IF Ch(p) >= 128 THEN skip_nb_char_utf8(p, decodeUTF8(p))
  ELSE p

skip_b_break(p) ==
  IF Ch(p) = CH_CR
    THEN IF p + 1 # End /\ Ch(p + 1) = CH_LF THEN p + 2 ELSE p + 1
  ELSE IF Ch(p) = CH_LF THEN p + 1
  ELSE p

skip_s_white(p) ==
  IF p = End THEN p
  ELSE IF Ch(p) = CH_SP \/ Ch(p) = CH_TAB THEN p + 1
  ELSE p

skip_ns_char(p) ==
  IF p = End THEN p
  ELSE IF Ch(p) = CH_SP \/ Ch(p) = CH_TAB THEN p
  ELSE skip_nb_char(p)

isBlankOrBreak(p) ==
  p # End /\ Ch(p) \in {CH_SP, CH_TAB, CH_CR, CH_LF}

(* skip_while<&Scanner::skip_ns_char> and <&Scanner::skip_s_white>; i is   *)
(* where the function called on p arrives.                                 *)
RECURSIVE skip_while_ns_char(_)
skip_while_ns_char_from(p, i) == IF i = p THEN p ELSE skip_while_ns_char(i)

skip_while_ns_char(p) == skip_while_ns_char_from(p, skip_ns_char(p))

RECURSIVE skip_while_s_white(_)
skip_while_s_white_from(p, i) == IF i = p THEN p ELSE skip_while_s_white(i)

skip_while_s_white(p) == skip_while_s_white_from(p, skip_s_white(p))

----------------------------------------------------------------------------
(* The scanner.  A scanner state s is a record of the fields of class      *)
(* Scanner:                                                                *)
(*   Current, Indent, Column, Line, FlowLevel, IsStartOfStream,            *)
(*   IsSimpleKeyAllowed, IsSimpleKeyRequired, Failed                       *)
(*   TokenQueue  the ilist, as the sequence of the arena slots of its nodes*)
(*   Arena, AllocPtr  TokenQueue.Alloc: the content of every slot handed   *)
(*               out so far, and the number of slots in use since Reset()  *)
(*   Indents, SimpleKeys  (SimpleKey.Tok is the slot of the token)         *)
(*   Diag        what printError has handed to the SourceMgr               *)
(*   DiagPos     the Position setError was given for each of them          *)
(*   Delivered   the tokens getNext has returned                           *)
(*   FlowAt      FlowLevel as it was when getNext returned each of them    *)
(*   MidParse    a collection's iteration has stopped (CurrentEntry == 0)  *)
(*               with neither IsAtBeginning nor IsAtEnd set                *)
(*   Abort       "" while the process runs, else why it stopped            *)
(*   Build, Mem, Hit  see Outcomes                                         *)
(***************************************************************************)
InitScanner ==
  [ Current |-> 0, Indent |-> -1, Column |-> 0, Line |-> 0, FlowLevel |-> 0,
    IsStartOfStream |-> TRUE, IsSimpleKeyAllowed |-> TRUE,
    IsSimpleKeyRequired |-> FALSE, Failed |-> FALSE,
    TokenQueue |-> <<>>, Arena |-> <<>>, AllocPtr |-> 0,
    Indents |-> <<>>, SimpleKeys |-> <<>>,
    Diag |-> <<>>, DiagPos |-> <<>>, Delivered |-> <<>>, FlowAt |-> <<>>,
    MidParse |-> FALSE,
    Abort |-> "", Build |-> "any", Mem |-> "any", Hit |-> {} ]

Ok(s) == [ok |-> TRUE, s |-> s]

Fail(s) == [ok |-> FALSE, s |-> s]

(* printError: SM.PrintMessage(Loc, Kind, Message) *)
printError(s, Loc, Message) ==
  [s EXCEPT !.Diag = Append(@, [Loc |-> Loc, Msg |-> Message])]

(* setError without the test of Failed: every call reports. *)
setErrorAlwaysPrints(s, Message, Position) ==
  LET s1 == IF s.Current >= End THEN [s EXCEPT !.Current = End - 1] ELSE s
  IN [printError(s1, s1.Current, Message)
        EXCEPT !.Failed = TRUE, !.DiagPos = Append(@, Position)]

(* setError(Message, Position): Position is not used; the message goes to  *)
(* the location of Current.                                                *)
setError(s, Message, Position) ==
  LET s1 == IF s.Current >= End THEN [s EXCEPT !.Current = End - 1] ELSE s
      s2 == IF ~s1.Failed
              THEN [printError(s1, s1.Current, Message)
                      EXCEPT !.DiagPos = Append(@, Position)]
              ELSE s1
  IN [s2 EXCEPT !.Failed = TRUE]

failed(s) == s.Failed

(* createNode: the next slot of the bump allocator holds a copy of T. *)
Allocate(s, T) ==
  LET slot == s.AllocPtr + 1 IN
  [s EXCEPT !.AllocPtr = slot,
            !.Arena = IF slot <= Len(@) THEN [@ EXCEPT ![slot] = T]
                      ELSE Append(@, T)]

(* TokenQueue.push_back(T) *)
PushBack(s, T) ==
  LET s1 == Allocate(s, T) IN
  [s1 EXCEPT !.TokenQueue = Append(@, s1.AllocPtr)]

(* TokenQueue.insert(InsertPoint, T): InsertPoint is a position of the     *)
(* queue, Len + 1 being end(); the new node sits at that position.         *)
InsertAt(s, pos, T) ==
  LET s1 == Allocate(s, T)
      q == s.TokenQueue
  IN [s1 EXCEPT !.TokenQueue =
        SubSeq(q, 1, pos - 1) \o <<s1.AllocPtr>> \o SubSeq(q, pos, Len(q))]

(* The position in the queue of the node in slot, Len + 1 (end()) if the   *)
(* queue holds no such node.                                               *)
PosOf(q, slot) ==
  IF \E i \in 1..Len(q) : q[i] = slot
    THEN CHOOSE i \in 1..Len(q) : q[i] = slot
    ELSE Len(q) + 1

(* TokenQueue.back() as an iterator *)
Back(s) == s.TokenQueue[Len(s.TokenQueue)]

(* skip(Distance) *)
skip(s, Distance) ==
  [s EXCEPT !.Current = @ + Distance, !.Column = @ + Distance]

saveSimpleKeyCandidate(s, TokSlot, AtColumn, IsRequired) ==
  IF s.IsSimpleKeyAllowed
    THEN [s EXCEPT !.SimpleKeys =
            Append(@, [Tok |-> TokSlot, Line |-> s.Line, Column |-> AtColumn,
                       IsRequired |-> IsRequired, FlowLevel |-> s.FlowLevel])]
    ELSE s

(* A candidate is stale when it is not on the current line or lies more    *)
(* than 1024 columns back.                                                 *)
IsStale(s, k) ==
  k.Line # s.Line \/ k.Column + SimpleKeyMaxColumns < s.Column

removeStaleSimpleKeyCandidates(s) ==
  LET Keep(k) == ~IsStale(s, k)
      req == {i \in 1..Len(s.SimpleKeys) :
                IsStale(s, s.SimpleKeys[i]) /\ s.SimpleKeys[i].IsRequired}
      s1 == IF req = {} THEN s
            ELSE setError(s, "Could not find expected : for simple key",
                          s.Arena[s.SimpleKeys[CHOOSE i \in req :
                             \A j \in req : i <= j].Tok].Range.b)
  IN [s1 EXCEPT !.SimpleKeys = SelectSeq(s.SimpleKeys, Keep)]

removeSimpleKeyCandidatesOnFlowLevel(s, Level) ==
  IF s.SimpleKeys # <<>> /\ s.SimpleKeys[Len(s.SimpleKeys)].FlowLevel = Level
    THEN [s EXCEPT !.SimpleKeys = SubSeq(@, 1, Len(@) - 1)]
    ELSE s

(* unrollIndent with "if" for "while": one level is closed, not all. *)
unrollIndentOnce(s, ToColumn) ==
  IF s.FlowLevel # 0 THEN s
  ELSE IF s.Indent > ToColumn
    THEN LET s1 == PushBack(s, Tok("TK_BlockEnd", Range(s.Current, 1))) IN
         [s1 EXCEPT !.Indent = s.Indents[Len(s.Indents)],
                    !.Indents = SubSeq(@, 1, Len(@) - 1)]
  ELSE s

RECURSIVE unrollIndent(_, _)
unrollIndent(s, ToColumn) ==
  IF s.FlowLevel # 0 THEN s
  ELSE IF s.Indent > ToColumn
    THEN LET s1 == PushBack(s, Tok("TK_BlockEnd", Range(s.Current, 1))) IN
         unrollIndent([s1 EXCEPT !.Indent = s.Indents[Len(s.Indents)],
                                 !.Indents = SubSeq(@, 1, Len(@) - 1)],
                      ToColumn)
  ELSE s

(* rollIndent pushing the new column, not the indent it leaves. *)
rollIndentPushesColumn(s, ToColumn, Kind, InsertPoint) ==
  IF s.FlowLevel # 0 THEN s
  ELSE IF s.Indent < ToColumn
    THEN InsertAt([s EXCEPT !.Indents = Append(@, ToColumn),
                            !.Indent = ToColumn],
                  InsertPoint, Tok(Kind, Range(s.Current, 0)))
  ELSE s

(* rollIndent without its test of FlowLevel. *)
rollIndentInFlow(s, ToColumn, Kind, InsertPoint) ==
  IF s.Indent < ToColumn
    THEN InsertAt([s EXCEPT !.Indents = Append(@, s.Indent),
                            !.Indent = ToColumn],
                  InsertPoint, Tok(Kind, Range(s.Current, 0)))
  ELSE s

(* rollIndent without the insertion of the start token. *)
rollIndentNoToken(s, ToColumn, Kind, InsertPoint) ==
  IF s.FlowLevel # 0 THEN s
  ELSE IF s.Indent < ToColumn
    THEN [s EXCEPT !.Indents = Append(@, s.Indent), !.Indent = ToColumn]
  ELSE s

rollIndent(s, ToColumn, Kind, InsertPoint) ==
  IF s.FlowLevel # 0 THEN s
  ELSE IF s.Indent < ToColumn
    THEN InsertAt([s EXCEPT !.Indents = Append(@, s.Indent),
                            !.Indent = ToColumn],
                  InsertPoint, Tok(Kind, Range(s.Current, 0)))
  ELSE s

(* TokenQueue.end() *)
QEnd(s) == Len(s.TokenQueue) + 1

(* A token of n bytes at Current, queued without being passed, and queued  *)
(* after skip(n); a token from Start to Current.                           *)
TokenHere(s, Kind) == PushBack(s, Tok(Kind, Range(s.Current, 0)))

TokenSkipped(s, Kind, n) ==
  PushBack(skip(s, n), Tok(Kind, Range(s.Current, n)))

TokenFrom(s, Kind, Start) ==
  PushBack(s, Tok(Kind, Range(Start, s.Current - Start)))

(* "SimpleKeys.clear(); IsSimpleKeyAllowed = false;" *)
ClearSimpleKeys(s) ==
  [s EXCEPT !.SimpleKeys = <<>>, !.IsSimpleKeyAllowed = FALSE]

(* "removeSimpleKeyCandidatesOnFlowLevel(FlowLevel); IsSimpleKeyAllowed =  *)
(* Allowed;"                                                               *)
DropCandidate(s, Allowed) ==
  [removeSimpleKeyCandidatesOnFlowLevel(s, s.FlowLevel)
     EXCEPT !.IsSimpleKeyAllowed = Allowed]

(* "saveSimpleKeyCandidate(TokenQueue.back(), ColStart, false);            *)
(* IsSimpleKeyAllowed = false;"                                            *)
SaveCandidate(s, ColStart) ==
  [saveSimpleKeyCandidate(s, Back(s), ColStart, FALSE)
     EXCEPT !.IsSimpleKeyAllowed = FALSE]

RECURSIVE SkipBlanks(_)
SkipBlanks(p) ==
  IF Ch(p) = CH_SP \/ Ch(p) = CH_TAB THEN SkipBlanks(p + 1) ELSE p

(* while skip_nb_char advances: the position reached and the code points   *)
(* passed; i is where skip_nb_char arrives from p.                         *)
RECURSIVE SkipNbChars(_, _)
SkipNbChars_from(p, n, i) ==
  IF i = p THEN [p |-> p, n |-> n] ELSE SkipNbChars(i, n + 1)

SkipNbChars(p, n) == SkipNbChars_from(p, n, skip_nb_char(p))

(* scanToNextToken.  p1 is behind the blanks at Current, c behind the      *)
(* comment that may start there.                                           *)
RECURSIVE scanToNextToken(_)
scanToNextToken_break(s, p1, c) ==
  IF skip_b_break(c.p) = c.p
    THEN [s EXCEPT !.Current = c.p, !.Column = @ + (p1 - s.Current) + c.n]
    ELSE scanToNextToken(
           [s EXCEPT !.Current = skip_b_break(c.p), !.Line = @ + 1,
                     !.Column = 0,
                     !.IsSimpleKeyAllowed =
                        IF s.FlowLevel = 0 THEN TRUE ELSE @])

scanToNextToken_comment(s, p1) ==
  scanToNextToken_break(s, p1,
    IF Ch(p1) = CH_HASH THEN SkipNbChars(p1, 0) ELSE [p |-> p1, n |-> 0])

scanToNextToken(s) == scanToNextToken_comment(s, SkipBlanks(s.Current))

scanStreamStart_encoded(s, EI) ==
  Ok([PushBack([s EXCEPT !.IsStartOfStream = FALSE],
               Tok("TK_StreamStart", Range(s.Current, EI.len)))
        EXCEPT !.Current = @ + EI.len])

scanStreamStart(s) ==
  scanStreamStart_encoded(s,
    getUnicodeEncoding(SubSeq(Input, s.Current + 1, End)))

scanStreamEnd(s) ==
  Ok(TokenHere(
       ClearSimpleKeys(
         unrollIndent(IF s.Column # 0
                        THEN [s EXCEPT !.Column = 0, !.Line = @ + 1] ELSE s,
                      -1)),
       "TK_StreamEnd"))

(* consume(Expected): report_fatal_error stops the process on a byte      *)
(* outside ASCII.                                                          *)
consume(s, Expected) ==
  IF Expected >= 128 THEN Fail([s EXCEPT !.Abort = "fatal"])
  ELSE IF s.Current = End THEN Fail(s)
  ELSE IF Ch(s.Current) >= 128 THEN Fail([s EXCEPT !.Abort = "fatal"])
  ELSE IF Ch(s.Current) = Expected THEN Ok(skip(s, 1))
  ELSE Fail(s)

(* scanDirective.  _name: after "consume('%')", with Start; _value: after  *)
(* the name, which ends at NameEnd, and the white space behind it.         *)
scanDirective_value(s, Start, NameStart, NameEnd) ==
  IF SubSeq(Input, NameStart + 1, NameEnd) = <<CH_Y, CH_A, CH_M, CH_L>>
    THEN Ok(TokenFrom([s EXCEPT !.Current = skip_while_ns_char(s.Current)],
                      "TK_VersionDirective", Start))
    ELSE Fail(s)

scanDirective_white(s, Start, NameEnd) ==
  scanDirective_value([s EXCEPT !.Current = skip_while_s_white(NameEnd)],
                      Start, s.Current, NameEnd)

scanDirective_name(s, Start) ==
  scanDirective_white(s, Start, skip_while_ns_char(s.Current))

scanDirective_reset(s) ==
  scanDirective_name(consume(s, CH_PERCENT).s, s.Current)

scanDirective(s) == scanDirective_reset(ClearSimpleKeys(unrollIndent(s, -1)))

scanDocumentIndicator(s, IsStart) ==
  Ok(TokenSkipped(ClearSimpleKeys(unrollIndent(s, -1)),
                  IF IsStart THEN "TK_DocumentStart" ELSE "TK_DocumentEnd",
                  3))

scanFlowCollectionStart_queued(s) ==
  Ok([saveSimpleKeyCandidate(s, Back(s), s.Column - 1, FALSE)
        EXCEPT !.IsSimpleKeyAllowed = TRUE, !.FlowLevel = @ + 1])

scanFlowCollectionStart(s, IsSequence) ==
  scanFlowCollectionStart_queued(
    TokenSkipped(s, IF IsSequence THEN "TK_FlowSequenceStart"
                    ELSE "TK_FlowMappingStart", 1))

(* scanFlowCollectionEnd with "--FlowLevel" whatever FlowLevel is. *)
scanFlowCollectionEnd_queuedAlways(s) == Ok([s EXCEPT !.FlowLevel = @ - 1])

scanFlowCollectionEnd_queued(s) ==
  Ok(IF s.FlowLevel # 0 THEN [s EXCEPT !.FlowLevel = @ - 1] ELSE s)

scanFlowCollectionEnd(s, IsSequence) ==
  scanFlowCollectionEnd_queued(
    TokenSkipped(DropCandidate(s, FALSE),
                 IF IsSequence THEN "TK_FlowSequenceEnd"
                 ELSE "TK_FlowMappingEnd", 1))

(* scanFlowEntry without its skip(1). *)
scanFlowEntryStays(s) == Ok(TokenSkipped(DropCandidate(s, TRUE), "TK_FlowEntry", 0))

scanFlowEntry(s) == Ok(TokenSkipped(DropCandidate(s, TRUE), "TK_FlowEntry", 1))

(* scanBlockEntry without rollIndent: no BlockSequenceStart is inserted. *)
scanBlockEntryNoRoll(s) ==
  Ok(TokenSkipped(DropCandidate(s, TRUE), "TK_BlockEntry", 1))

scanBlockEntry(s) ==
  Ok(TokenSkipped(
       DropCandidate(rollIndent(s, s.Column, "TK_BlockSequenceStart", QEnd(s)),
                     TRUE),
       "TK_BlockEntry", 1))

scanKey(s) ==
  Ok(TokenSkipped(
       DropCandidate(IF s.FlowLevel = 0
                       THEN rollIndent(s, s.Column, "TK_BlockMappingStart",
                                       QEnd(s))
                       ELSE s,
                     s.FlowLevel = 0),
       "TK_Key", 1))

(* scanValue.  SK.Tok->Range reads the arena slot the candidate names,     *)
(* whatever it holds now.  When the candidate's node is not in the queue   *)
(* the assertion "SimpleKey not in token queue!" fails; a build without    *)
(* assertions inserts at end() (see Outcomes).  _insert: SK has been       *)
(* popped and i is where the search for SK.Tok stopped.                    *)
scanValue_insert(s, SK, i) ==
  [rollIndent(
     InsertAt(IF i = QEnd(s) /\ s.Build = "any"
                THEN [s EXCEPT !.Hit = @ \cup {"assert"}] ELSE s,
              i, Tok("TK_Key", s.Arena[SK.Tok].Range)),
     SK.Column, "TK_BlockMappingStart", i)
     EXCEPT !.IsSimpleKeyAllowed = FALSE]

scanValue_key(s) ==
  IF s.SimpleKeys # <<>>
    THEN scanValue_insert([s EXCEPT !.SimpleKeys = SubSeq(@, 1, Len(@) - 1)],
                          s.SimpleKeys[Len(s.SimpleKeys)],
                          PosOf(s.TokenQueue, s.SimpleKeys[Len(s.SimpleKeys)].Tok))
    ELSE [(IF s.FlowLevel = 0
             THEN rollIndent(s, s.Column, "TK_BlockMappingStart", QEnd(s))
             ELSE s)
            EXCEPT !.IsSimpleKeyAllowed = (s.FlowLevel = 0)]

scanValue(s) == Ok(TokenSkipped(scanValue_key(s), "TK_Value", 1))

(* wasEscaped(First, Position): an odd number of '\' precede Position. *)
RECURSIVE BackslashRun(_, _)
BackslashRun(First, I) ==
  IF I >= First /\ Ch(I) = CH_BACKSLASH THEN BackslashRun(First, I - 1) ELSE I

wasEscaped(First, Position) ==
  (Position - 1 - BackslashRun(First, Position - 1)) % 2 = 1

RECURSIVE FindDQuote(_)
FindDQuote(p) ==
  IF p # End /\ Ch(p) # CH_DQUOTE THEN FindDQuote(p + 1) ELSE p

(* The do-while of scanFlowScalar for a double-quoted scalar: the position *)
(* of the closing quote, or End, or -1 when the search starts past End     *)
(* and runs through the memory behind the buffer.  q is where the inner    *)
(* while stops.                                                            *)
RECURSIVE DQScan(_, _)
DQScan_quote(Start, q) ==
  IF Ch(q - 1) = CH_BACKSLASH /\ wasEscaped(Start + 1, q)
    THEN DQScan(Start, q) ELSE q

DQScan(Start, cur) ==
  IF cur + 1 > End THEN -1 ELSE DQScan_quote(Start, FindDQuote(cur + 1))

(* The loop of scanFlowScalar for a single-quoted scalar; i is where       *)
(* skip_nb_char arrives from Current.                                      *)
RECURSIVE SQScan(_)
SQScan_char(s, i) ==
  IF i = s.Current
    THEN IF skip_b_break(s.Current) = s.Current THEN s
         ELSE SQScan([s EXCEPT !.Current = skip_b_break(s.Current),
                               !.Column = 0, !.Line = @ + 1])
  ELSE IF i = End THEN s
  ELSE SQScan([s EXCEPT !.Current = i, !.Column = @ + 1])

SQScan(s) ==
  IF s.Current + 1 < End /\ Ch(s.Current) = CH_SQUOTE
     /\ Ch(s.Current + 1) = CH_SQUOTE
    THEN SQScan(skip(s, 2))
  ELSE IF Ch(s.Current) = CH_SQUOTE THEN s
  ELSE SQScan_char(s, skip_nb_char(s.Current))

(* scanFlowScalar.  _end: Current is at the closing quote; _double: q is   *)
(* what the search for the closing '"' found.                              *)
scanFlowScalar_end(s, Start, ColStart) ==
  Ok(SaveCandidate(TokenFrom(skip(s, 1), "TK_Scalar", Start), ColStart))

scanFlowScalar_double(s, q) ==
  IF q = -1 THEN Fail([s EXCEPT !.Abort = "segv"])
  ELSE scanFlowScalar_end([s EXCEPT !.Current = q], s.Current, s.Column)

scanFlowScalar(s, IsDoubleQuoted) ==
  IF IsDoubleQuoted
    THEN scanFlowScalar_double(s, DQScan(s.Current, s.Current))
    ELSE scanFlowScalar_end(SQScan(skip(s, 1)), s.Current, s.Column)

FlowIndicators ==
  {CH_COMMA, CH_COLON, CH_QUESTION, CH_LBRACKET, CH_RBRACKET, CH_LBRACE,
   CH_RBRACE}

(* scanPlainScalar, the loop "while (!isBlankOrBreak(Current))"; i is      *)
(* where skip_nb_char arrives from Current.                                *)
RECURSIVE PlainChars(_)
PlainChars_char(s, i) ==
  IF i = s.Current THEN [err |-> FALSE, s |-> s]
  ELSE PlainChars([s EXCEPT !.Current = i, !.Column = @ + 1])

PlainChars(s) ==
  LET c == s.Current IN
  IF isBlankOrBreak(c) THEN [err |-> FALSE, s |-> s]
  ELSE IF s.FlowLevel # 0 /\ Ch(c) = CH_COLON
          /\ ~(isBlankOrBreak(c + 1) \/ Ch(c + 1) = CH_COMMA)
    THEN [err |-> TRUE,
          s |-> setError(s, "Found unexpected ':' while scanning a plain scalar", c)]
  ELSE IF (Ch(c) = CH_COLON /\ isBlankOrBreak(c + 1))
          \/ (s.FlowLevel # 0 /\ Ch(c) \in FlowIndicators)
    THEN [err |-> FALSE, s |-> s]
  ELSE PlainChars_char(s, skip_nb_char(c))

(* scanPlainScalar, the loop "while (isBlankOrBreak(Tmp))". *)
RECURSIVE PlainBlanks(_, _, _, _)
PlainBlanks(s, Tmp, LeadingBlanks, indent) ==
  IF ~isBlankOrBreak(Tmp)
    THEN [err |-> FALSE, s |-> s, Tmp |-> Tmp, LeadingBlanks |-> LeadingBlanks]
  ELSE IF skip_s_white(Tmp) # Tmp
    THEN IF LeadingBlanks /\ s.Column < indent /\ Ch(Tmp) = CH_TAB
           THEN [err |-> TRUE,
                 s |-> setError(s, "Found invalid tab character in indentation", Tmp),
                 Tmp |-> Tmp, LeadingBlanks |-> LeadingBlanks]
           ELSE PlainBlanks([s EXCEPT !.Column = @ + 1], skip_s_white(Tmp),
                            LeadingBlanks, indent)
  ELSE PlainBlanks([s EXCEPT !.Column = 0, !.Line = @ + 1],
                   skip_b_break(Tmp), TRUE, indent)

(* scanPlainScalar, the outer loop; a is what the first inner loop left,   *)
(* b the second.                                                           *)
RECURSIVE PlainLoop(_, _, _)
PlainLoop_blanks(b, indent) ==
  IF b.err THEN [err |-> TRUE, s |-> b.s]
  ELSE IF b.s.FlowLevel = 0 /\ b.s.Column < indent
    THEN [err |-> FALSE, s |-> b.s]
  ELSE PlainLoop([b.s EXCEPT !.Current = b.Tmp], b.LeadingBlanks, indent)

PlainLoop_chars(a, LeadingBlanks, indent) ==
  IF a.err \/ ~isBlankOrBreak(a.s.Current) THEN a
  ELSE PlainLoop_blanks(PlainBlanks(a.s, a.s.Current, LeadingBlanks, indent),
                        indent)

PlainLoop(s, LeadingBlanks, indent) ==
  IF Ch(s.Current) = CH_HASH THEN [err |-> FALSE, s |-> s]
  ELSE PlainLoop_chars(PlainChars(s), LeadingBlanks, indent)

scanPlainScalar_end(r, Start, ColStart) ==
  IF r.err THEN Fail(r.s)
  ELSE IF Start = r.s.Current
    THEN Fail(setError(r.s, "Got empty plain scalar", Start))
  ELSE Ok(SaveCandidate(TokenFrom(r.s, "TK_Scalar", Start), ColStart))

scanPlainScalar(s) ==
  scanPlainScalar_end(PlainLoop(s, FALSE, s.Indent + 1), s.Current, s.Column)

(* The loop of scanAliasOrAnchor; i is where skip_ns_char arrives. *)
RECURSIVE AnchorChars(_)
AnchorChars_char(s, i) ==
  IF i = s.Current THEN s
  ELSE AnchorChars([s EXCEPT !.Current = i, !.Column = @ + 1])

AnchorChars(s) ==
  IF Ch(s.Current) \in {CH_LBRACKET, CH_RBRACKET, CH_LBRACE, CH_RBRACE,
                        CH_COMMA, CH_COLON}
    THEN s
    ELSE AnchorChars_char(s, skip_ns_char(s.Current))

scanAliasOrAnchor_end(s, Start, ColStart, IsAlias) ==
  IF Start = s.Current
    THEN Fail(setError(s, "Got empty alias or anchor", Start))
    ELSE Ok(SaveCandidate(
              TokenFrom(s, IF IsAlias THEN "TK_Alias" ELSE "TK_Anchor", Start),
              ColStart))

scanAliasOrAnchor(s, IsAlias) ==
  scanAliasOrAnchor_end(AnchorChars(skip(s, 1)), s.Current, s.Column, IsAlias)

(* scanBlockScalar, the loop: err is the "return false" in it; i is where  *)
(* skip_nb_char arrives from Current.                                      *)
RECURSIVE BlockScalarChars(_)
BlockScalarChars_char(s, i) ==
  IF i = s.Current
    THEN IF s.Column = 0 THEN [err |-> FALSE, s |-> s]
         ELSE IF skip_b_break(s.Current) # s.Current
           THEN BlockScalarChars([s EXCEPT !.Column = 0, !.Line = @ + 1,
                                    !.Current = skip_b_break(s.Current)])
         ELSE [err |-> TRUE, s |-> s]
  ELSE BlockScalarChars([s EXCEPT !.Current = i, !.Column = @ + 1])

BlockScalarChars(s) == BlockScalarChars_char(s, skip_nb_char(s.Current))

scanBlockScalar_end(r, Start) ==
  IF r.err THEN Fail(r.s)
  ELSE IF Start = r.s.Current
    THEN Fail(setError(r.s, "Got empty block scalar", Start))
  ELSE Ok(TokenFrom(r.s, "TK_Scalar", Start))

scanBlockScalar(s, IsLiteral) ==
  scanBlockScalar_end(BlockScalarChars(skip(s, 1)), s.Current)

is_ns_hex_digit(C) ==
  (C >= 48 /\ C <= 57) \/ (C >= 97 /\ C <= 122) \/ (C >= 65 /\ C <= 90)

is_ns_word_char(C) ==
  C = CH_MINUS \/ (C >= 97 /\ C <= 122) \/ (C >= 65 /\ C <= 90)

(* "#;/?:@&=+$,_.!~*'()[]" *)
UriPunctuation ==
  {35, 59, 47, 63, 58, 64, 38, 61, 43, 36, 44, 95, 46, 33, 126, 42, 39, 40,
   41, 91, 93}

RECURSIVE scan_ns_uri_char(_)
scan_ns_uri_char(s) ==
  LET c == s.Current IN
  IF c = End THEN s
  ELSE IF (Ch(c) = CH_PERCENT /\ c + 2 < End /\ is_ns_hex_digit(Ch(c + 1))
             /\ is_ns_hex_digit(Ch(c + 2)))
          \/ is_ns_word_char(Ch(c))
          \/ Ch(c) \in UriPunctuation
    THEN scan_ns_uri_char(skip(s, 1))
  ELSE s

(* scanTag.  _body: after "skip(1)" over the '!'; _verbatim: c is what     *)
(* "consume('>')" returned; _end: the tag has been passed.                 *)
scanTag_end(s, Start, ColStart) ==
  Ok(SaveCandidate(TokenFrom(s, "TK_Tag", Start), ColStart))

scanTag_verbatim(c, Start, ColStart) ==
  IF ~c.ok THEN Fail(c.s) ELSE scanTag_end(c.s, Start, ColStart)

scanTag_body(s, Start, ColStart) ==
  IF s.Current = End \/ isBlankOrBreak(s.Current)
    THEN scanTag_end(s, Start, ColStart)
  ELSE IF Ch(s.Current) = CH_LT
    THEN scanTag_verbatim(consume(scan_ns_uri_char(skip(s, 1)), CH_GT),
                          Start, ColStart)
  ELSE scanTag_end([s EXCEPT !.Current = skip_while_ns_char(s.Current)],
                   Start, ColStart)

scanTag(s) == scanTag_body(skip(s, 1), s.Current, s.Column)

(* "-?:,[]{}#&*!|>'\"%@`" *)
Indicators ==
  {CH_MINUS, CH_QUESTION, CH_COLON, CH_COMMA, CH_LBRACKET, CH_RBRACKET,
   CH_LBRACE, CH_RBRACE, CH_HASH, CH_AMP, CH_STAR, CH_BANG, CH_PIPE, CH_GT,
   CH_SQUOTE, CH_DQUOTE, CH_PERCENT, CH_AT, CH_BACKTICK}

(* The test that guards "return scanPlainScalar()" in fetchMoreTokens. *)
IsPlainScalarStart(s) ==
  LET c == s.Current IN
  \/ ~(isBlankOrBreak(c) \/ Ch(c) \in Indicators)
  \/ (Ch(c) = CH_MINUS /\ ~isBlankOrBreak(c + 1))
  \/ (s.FlowLevel = 0 /\ (Ch(c) = CH_QUESTION \/ Ch(c) = CH_COLON)
      /\ isBlankOrBreak(c + 1))
  \/ (s.FlowLevel = 0 /\ Ch(c) = CH_COLON /\ c + 2 < End
      /\ Ch(c + 1) = CH_COLON /\ ~isBlankOrBreak(c + 2))

(* "---" or "..." at column 0, followed by a blank or a break. *)
IsDocumentIndicator(s, C) ==
  LET c == s.Current IN
  s.Column = 0 /\ c + 4 <= End /\ Ch(c) = C /\ Ch(c + 1) = C /\ Ch(c + 2) = C
  /\ (c + 3 = End \/ isBlankOrBreak(c + 3))

(* fetchMoreTokens from the test of the first character on. *)
Dispatch(s) ==
  LET c == Ch(s.Current)
      flow == s.FlowLevel # 0
  IN IF s.Column = 0 /\ c = CH_PERCENT THEN scanDirective(s)
     ELSE IF IsDocumentIndicator(s, CH_MINUS) THEN scanDocumentIndicator(s, TRUE)
     ELSE IF IsDocumentIndicator(s, CH_DOT) THEN scanDocumentIndicator(s, FALSE)
     ELSE IF c = CH_LBRACKET THEN scanFlowCollectionStart(s, TRUE)
     ELSE IF c = CH_LBRACE THEN scanFlowCollectionStart(s, FALSE)
     ELSE IF c = CH_RBRACKET THEN scanFlowCollectionEnd(s, TRUE)
     ELSE IF c = CH_RBRACE THEN scanFlowCollectionEnd(s, FALSE)
     ELSE IF c = CH_COMMA THEN scanFlowEntry(s)
     ELSE IF c = CH_MINUS /\ isBlankOrBreak(s.Current + 1) THEN scanBlockEntry(s)
     ELSE IF c = CH_QUESTION /\ (flow \/ isBlankOrBreak(s.Current + 1))
       THEN scanKey(s)
     ELSE IF c = CH_COLON /\ (flow \/ isBlankOrBreak(s.Current + 1))
       THEN scanValue(s)
     ELSE IF c = CH_STAR THEN scanAliasOrAnchor(s, TRUE)
     ELSE IF c = CH_AMP THEN scanAliasOrAnchor(s, FALSE)
     ELSE IF c = CH_BANG THEN scanTag(s)
     ELSE IF c = CH_PIPE /\ ~flow THEN scanBlockScalar(s, TRUE)
     ELSE IF c = CH_GT /\ ~flow THEN scanBlockScalar(s, FALSE)
     ELSE IF c = CH_SQUOTE THEN scanFlowScalar(s, FALSE)
     ELSE IF c = CH_DQUOTE THEN scanFlowScalar(s, TRUE)
     ELSE IF IsPlainScalarStart(s) THEN scanPlainScalar(s)
     ELSE Fail(setError(s, "Unrecognized character while tokenizing.",
                        s.Current))

(* fetchMoreTokens.  Entered with Current past End, or before the buffer   *)
(* (setError on an empty input leaves Current = End - 1), its first read   *)
(* is outside the buffer (see Outcomes).  _token: after scanToNextToken.   *)
fetchMoreTokens_token(s) ==
  IF s.Current = End THEN scanStreamEnd(s)
  ELSE Dispatch(unrollIndent(removeStaleSimpleKeyCandidates(s), s.Column))

fetchMoreTokens(s) ==
  IF s.IsStartOfStream THEN scanStreamStart(s)
  ELSE fetchMoreTokens_token(
         scanToNextToken(
           IF (s.Current > End \/ s.Current < 0) /\ s.Mem = "any"
             THEN [s EXCEPT !.Hit = @ \cup {"oob"}] ELSE s))

(* TokenQueue.front() *)
Front(s) == s.Arena[Head(s.TokenQueue)]

(* std::find(SimpleKeys.begin(), SimpleKeys.end(), SK) != SimpleKeys.end() *)
(* for SK.Tok = TokenQueue.front(): SimpleKey::operator== compares Tok.    *)
HeadIsCandidate(s) ==
  \E i \in 1..Len(s.SimpleKeys) : s.SimpleKeys[i].Tok = Head(s.TokenQueue)

(* peekNext on a failed fetch: the queue is cleared and holds one Token(). *)
FetchFailed(s) == PushBack([s EXCEPT !.TokenQueue = <<>>], ErrorToken)

(* "if (TokenQueue.empty() || NeedMore) if (!fetchMoreTokens())": ok and   *)
(* the scanner afterwards.                                                 *)
peekNext_fetch(s, NeedMore) ==
  IF s.TokenQueue = <<>> \/ NeedMore THEN fetchMoreTokens(s) ELSE Ok(s)

(* peekNext without its loop: the head is returned after one fetch, a     *)
(* candidate or not.                                                       *)
peekOnce_fetched(r) ==
  IF r.s.Abort # "" THEN r.s
  ELSE IF ~r.ok THEN FetchFailed(r.s)
  ELSE removeStaleSimpleKeyCandidates(r.s)

peekOnce(s, NeedMore) == peekOnce_fetched(peekNext_fetch(s, NeedMore))

(* peekNext, the body of its loop; r is what the fetch returned, s1 the    *)
(* scanner after removeStaleSimpleKeyCandidates.                           *)
RECURSIVE peekLoop(_, _)
peekLoop_stale(s1) == IF HeadIsCandidate(s1) THEN peekLoop(s1, TRUE) ELSE s1

peekLoop_fetched(r) ==
  IF r.s.Abort # "" THEN r.s
  ELSE IF ~r.ok THEN FetchFailed(r.s)
  ELSE peekLoop_stale(removeStaleSimpleKeyCandidates(r.s))

peekLoop(s, NeedMore) == peekLoop_fetched(peekNext_fetch(s, NeedMore))

(* peekNext: the scanner afterwards; the token returned is its Front. *)
peekNext(s) == peekLoop(s, FALSE)

(* getNext after "Token Ret = peekNext()": pop_front, Alloc.Reset() when   *)
(* the queue is empty, return Ret.                                         *)
PopFront(s1) ==
  IF s1.Abort # "" THEN s1
  ELSE [s1 EXCEPT !.TokenQueue = IF @ # <<>> THEN Tail(@) ELSE @,
                  !.AllocPtr = IF Len(s1.TokenQueue) <= 1 THEN 0 ELSE @,
                  !.Delivered = Append(@, Front(s1)),
                  !.FlowAt = Append(@, s1.FlowLevel)]

(* getNext clearing Failed together with the allocator. *)
ClearFailedOnReset(n) ==
  IF n.TokenQueue = <<>> THEN [n EXCEPT !.Failed = FALSE] ELSE n

getNextClearsFailed(s) == ClearFailedOnReset(PopFront(peekNext(s)))

(* getNext: the scanner afterwards; the token returned is the last of      *)
(* Delivered.                                                              *)
getNext(s) == PopFront(peekNext(s))

(***************************************************************************)
(* What a call that takes the scanner from s0 to r can leave behind.  r is *)
(* computed as a build without assertions computes it, reading zeroed      *)
(* memory behind the buffer, and r.Hit tells whether the call met          *)
(*   "assert"  an assertion whose condition was false: a build with        *)
(*             assertions aborts there; having gone on, the build is       *)
(*             known to be one without (Build = "release");                *)
(*   "oob"     a read past the buffer's terminator: the process may crash; *)
(*             having gone on, the memory there is known to be readable    *)
(*             (Mem = "zero").                                             *)
(***************************************************************************)
Outcomes(s0, r) ==
  IF r.Hit = {} THEN {r}
  ELSE { [r EXCEPT !.Hit = {},
                   !.Build = IF "assert" \in r.Hit THEN "release" ELSE @,
                   !.Mem = IF "oob" \in r.Hit THEN "zero" ELSE @],
         [s0 EXCEPT !.Abort = IF "assert" \in r.Hit THEN "assert" ELSE "segv"] }

----------------------------------------------------------------------------
(* The document parser.  Its operations take the scanner s, act on it      *)
(* through peekNext, getNext and setError, and yield the scanner           *)
(* afterwards.  A node is known by what parseBlockNode built: "0" (the     *)
(* null pointer), "NullNode", "ScalarNode", "AliasNode", a MappingNode by  *)
(* its Type and a SequenceNode by its SeqType.  Once the process has       *)
(* stopped (s.Abort) nothing more is done.                                 *)

MappingTypes == {"MT_Block", "MT_Flow", "MT_Inline"}

SequenceTypes == {"ST_Block", "ST_Flow", "ST_Indentless"}

(* Document::peekNext and Document::getNext *)
Document_peekNext(s) == IF s.Abort # "" THEN s ELSE peekNext(s)

Document_getNext(s) == IF s.Abort # "" THEN s ELSE getNext(s)

(* The Kind of the token peekNext has just returned in s. *)
PeekedKind(s) == IF s.Abort # "" THEN "none" ELSE Front(s).Kind

(* Document::setError(Message, Location) for Location the peeked token *)
Document_setError(s, Message) ==
  IF s.Abort # "" THEN s ELSE setError(s, Message, Front(s).Range.b)

(* "getNext()" where the code has it for a token of one of Kinds: p is the *)
(* scanner with the token peeked.                                          *)
GetNextIf(p, Kinds) ==
  IF PeekedKind(p) \in Kinds THEN Document_getNext(p) ELSE p

(* Document::parseBlockNode.  parse_property is entered with "T =          *)
(* peekNext()" still to be done on s, HasAnchor being AnchorInfo.Kind ==   *)
(* TK_Anchor; in _token p has T peeked and g is the scanner after the      *)
(* getNext() of the cases that have one.                                   *)
NodeOf(T) ==
  CASE T = "TK_Alias" -> "AliasNode"
    [] T = "TK_BlockEntry" -> "ST_Indentless"
    [] T = "TK_BlockSequenceStart" -> "ST_Block"
    [] T = "TK_BlockMappingStart" -> "MT_Block"
    [] T = "TK_FlowSequenceStart" -> "ST_Flow"
    [] T = "TK_FlowMappingStart" -> "MT_Flow"
    [] T = "TK_Scalar" -> "ScalarNode"
    [] T = "TK_Key" -> "MT_Inline"
    [] T = "TK_Error" -> "0"
    [] OTHER -> "NullNode"

RECURSIVE parse_property(_, _)
parse_property_token(p, g, HasAnchor) ==
  IF PeekedKind(p) \in {"TK_Anchor", "TK_Tag"}
    THEN parse_property(g, HasAnchor \/ PeekedKind(p) = "TK_Anchor")
    ELSE [s |-> g, n |-> NodeOf(PeekedKind(p))]

(* parse_property without the test of AnchorInfo: a second Anchor is       *)
(* consumed as the first was.                                              *)
parse_property_peekedAnyAnchor(p, HasAnchor) ==
  parse_property_token(p,
    GetNextIf(p, {"TK_Alias", "TK_Anchor", "TK_Tag",
                  "TK_BlockSequenceStart", "TK_BlockMappingStart",
                  "TK_FlowSequenceStart", "TK_FlowMappingStart",
                  "TK_Scalar"}),
    HasAnchor)

(* parse_property with a getNext() in the case of TK_Key as well. *)
parse_property_peekedEatsKey(p, HasAnchor) ==
  IF PeekedKind(p) = "TK_Anchor" /\ HasAnchor
    THEN [s |-> Document_setError(p,
                  "Already encountered an anchor for this node!"),
          n |-> "0"]
    ELSE parse_property_token(p,
           GetNextIf(p, {"TK_Alias", "TK_Anchor", "TK_Tag",
                         "TK_BlockSequenceStart", "TK_BlockMappingStart",
                         "TK_FlowSequenceStart", "TK_FlowMappingStart",
                         "TK_Scalar", "TK_Key"}),
           HasAnchor)

parse_property_peeked(p, HasAnchor) ==
  IF PeekedKind(p) = "TK_Anchor" /\ HasAnchor
    THEN [s |-> Document_setError(p,
                  "Already encountered an anchor for this node!"),
          n |-> "0"]
    ELSE parse_property_token(p,
           GetNextIf(p, {"TK_Alias", "TK_Anchor", "TK_Tag",
                         "TK_BlockSequenceStart", "TK_BlockMappingStart",
                         "TK_FlowSequenceStart", "TK_FlowMappingStart",
                         "TK_Scalar"}),
           HasAnchor)

parse_property(s, HasAnchor) ==
  parse_property_peeked(Document_peekNext(s), HasAnchor)

parseBlockNode(s) == parse_property(s, FALSE)

(* KeyValueNode::getKey on an entry whose Key is not set.  p has the first *)
(* token peeked, p2 the second.                                            *)
KeyValueNode_getKey_explicit(p2) ==
  IF PeekedKind(p2) \in {"TK_BlockEnd", "TK_Value"}
    THEN [s |-> p2, n |-> "NullNode"]
    ELSE parseBlockNode(p2)

KeyValueNode_getKey_implicit(p) ==
  IF PeekedKind(p) \in {"TK_BlockEnd", "TK_Value", "TK_Error"}
    THEN [s |-> p, n |-> "NullNode"]
    ELSE KeyValueNode_getKey_explicit(
           Document_peekNext(GetNextIf(p, {"TK_Key"})))

KeyValueNode_getKey(s) == KeyValueNode_getKey_implicit(Document_peekNext(s))

(* skip() of a MappingNode or SequenceNode that has been iterated:         *)
(* assert((IsAtBeginning || IsAtEnd) && "Cannot skip mid parse!"), and     *)
(* nothing more, IsAtBeginning being false.                                *)
Node_skipAgain(s) ==
  IF s.Abort = "" /\ s.MidParse /\ s.Build = "any"
    THEN [s EXCEPT !.Hit = @ \cup {"assert"}]
    ELSE s

(* The loop of skip() has come to "i == e" (CurrentEntry == 0) on a        *)
(* collection whose increment left IsAtEnd as atEnd.                       *)
Node_loopEnded(s, atEnd) == IF atEnd THEN s ELSE [s EXCEPT !.MidParse = TRUE]

(* "++i" on an entry the loop has skipped: increment returns at once on a  *)
(* failed scanner, and else begins with "CurrentEntry->skip()".            *)
Node_nextEntry(s) == IF failed(s) THEN s ELSE Node_skipAgain(s)

(* KeyValueNode::getValue on an entry whose Value is not set, after its    *)
(* "getKey()->skip()".  p has the first token peeked, p2 the token behind  *)
(* TK_Value.                                                               *)
KeyValueNode_getValue_value(p2) ==
  IF PeekedKind(p2) \in {"TK_BlockEnd", "TK_Key"}
    THEN [s |-> p2, n |-> "NullNode"]
    ELSE parseBlockNode(p2)

KeyValueNode_getValue_peeked(p) ==
  IF PeekedKind(p) \in {"TK_BlockEnd", "TK_FlowMappingEnd", "TK_Key",
                        "TK_FlowEntry", "TK_Error"}
    THEN [s |-> p, n |-> "NullNode"]
  ELSE IF PeekedKind(p) # "TK_Value"
    THEN [s |-> Document_setError(p, "Unexpected token in Key Value."),
          n |-> "NullNode"]
  ELSE KeyValueNode_getValue_value(Document_peekNext(Document_getNext(p)))

KeyValueNode_getValue_key(s) ==
  IF failed(s) THEN [s |-> s, n |-> "NullNode"]
  ELSE KeyValueNode_getValue_peeked(Document_peekNext(s))

KeyValueNode_getValue(s) == KeyValueNode_getValue_key(Node_skipAgain(s))

(* MappingNode::increment.  HasEntry is CurrentEntry != 0; the entry was   *)
(* skipped by the loop of MappingNode::skip, so "CurrentEntry->skip()"     *)
(* finds its key and value iterated (see Node_nextEntry).  The result:     *)
(* the scanner, whether CurrentEntry is set, and IsAtEnd.  In _token p has *)
(* T peeked and g is the scanner after the getNext() of the cases that     *)
(* have one.                                                               *)
RECURSIVE MappingNode_increment(_, _, _)
MappingNode_increment_token(p, g, Type, HasEntry) ==
  LET T == PeekedKind(p)
      AtEnd(x) == [s |-> x, entry |-> FALSE, atEnd |-> TRUE]
  IN IF T \in {"TK_Key", "TK_Scalar"}
       THEN [s |-> p, entry |-> TRUE, atEnd |-> FALSE]
     ELSE IF Type = "MT_Block"
       THEN CASE T = "TK_BlockEnd" -> AtEnd(g)
              [] T = "TK_Error" -> AtEnd(p)
              [] OTHER ->
                   AtEnd(Document_setError(p,
                     "Unexpected token. Expected Key or Block End"))
     ELSE CASE T = "TK_FlowEntry" -> MappingNode_increment(g, Type, HasEntry)
            [] T = "TK_FlowMappingEnd" -> AtEnd(g)
            [] T = "TK_Error" -> AtEnd(p)
            [] OTHER ->
                 AtEnd(Document_setError(p,
                   "Unexpected token. Expected Key, Flow Entry, or Flow Mapping End."))

MappingNode_increment_peeked(p, Type, HasEntry) ==
  MappingNode_increment_token(p,
    GetNextIf(p, IF Type = "MT_Block" THEN {"TK_BlockEnd"}
                 ELSE {"TK_FlowEntry", "TK_FlowMappingEnd"}),
    Type, HasEntry)

(* MappingNode::increment without the test of MT_Inline. *)
MappingNode_incrementInlineGoesOn(s, Type, HasEntry) ==
  IF failed(s)
    THEN [s |-> s, entry |-> FALSE, atEnd |-> TRUE]
    ELSE MappingNode_increment_peeked(Document_peekNext(s), Type, HasEntry)

MappingNode_increment(s, Type, HasEntry) ==
  IF failed(s) \/ (HasEntry /\ Type = "MT_Inline")
    THEN [s |-> s, entry |-> FALSE, atEnd |-> TRUE]
    ELSE MappingNode_increment_peeked(Document_peekNext(s), Type, HasEntry)

(* The member the header in src/ does not declare: the first entry of a   *)
(* flow sequence needs no ',' before it.                                   *)
InitWasPreviousTokenFlowEntry == TRUE

(* SequenceNode::increment.  The result: the scanner, CurrentEntry ("none" *)
(* for 0), WasPreviousTokenFlowEntry and IsAtEnd.  In _token p has T       *)
(* peeked and g is the scanner after the getNext() of the cases that have  *)
(* one; in _entry e is what parseBlockNode returned.                       *)
RECURSIVE SequenceNode_increment(_, _, _)
(* The entry without "if (CurrentEntry == 0) IsAtEnd = true". *)
SequenceNode_increment_entryNotAtEnd(e, was) ==
  [s |-> e.s, n |-> IF e.n = "0" THEN "none" ELSE e.n, was |-> was,
   atEnd |-> FALSE]

SequenceNode_increment_entry(e, was) ==
  [s |-> e.s, n |-> IF e.n = "0" THEN "none" ELSE e.n, was |-> was,
   atEnd |-> e.n = "0"]

(* SequenceNode::increment without the error for a sequence not closed. *)
SequenceNode_increment_tokenNoClosing(p, g, SeqType, Was) ==
  LET T == PeekedKind(p)
      AtEnd(x) == [s |-> x, n |-> "none", was |-> Was, atEnd |-> TRUE]
      IsEntry == IF SeqType = "ST_Flow"
                   THEN Was /\ T \notin {"TK_FlowEntry", "TK_FlowSequenceEnd",
                                         "TK_Error", "TK_StreamEnd",
                                         "TK_DocumentEnd", "TK_DocumentStart"}
                   ELSE T = "TK_BlockEntry"
  IN IF IsEntry
       THEN SequenceNode_increment_entry(parseBlockNode(g),
                                         IF SeqType = "ST_Flow" THEN FALSE
                                         ELSE Was)
     ELSE IF SeqType = "ST_Block"
       THEN CASE T = "TK_BlockEnd" -> AtEnd(g)
              [] T = "TK_Error" -> AtEnd(p)
              [] OTHER ->
                   AtEnd(Document_setError(p,
                     "Unexpected token. Expected Block Entry or Block End."))
     ELSE IF SeqType = "ST_Indentless" THEN AtEnd(p)
     ELSE CASE T = "TK_FlowEntry" ->
                 SequenceNode_increment(g, SeqType, TRUE)
            [] T = "TK_FlowSequenceEnd" -> AtEnd(g)
            [] T = "TK_Error" -> AtEnd(p)
            [] T \in {"TK_StreamEnd", "TK_DocumentEnd", "TK_DocumentStart"} ->
                 AtEnd(p)
            [] OTHER ->
                 AtEnd(Document_setError(p, "Expected , between entries!"))

SequenceNode_increment_token(p, g, SeqType, Was) ==
  LET T == PeekedKind(p)
      AtEnd(x) == [s |-> x, n |-> "none", was |-> Was, atEnd |-> TRUE]
      IsEntry == IF SeqType = "ST_Flow"
                   THEN Was /\ T \notin {"TK_FlowEntry", "TK_FlowSequenceEnd",
                                         "TK_Error", "TK_StreamEnd",
                                         "TK_DocumentEnd", "TK_DocumentStart"}
                   ELSE T = "TK_BlockEntry"
  IN IF IsEntry
       THEN SequenceNode_increment_entry(parseBlockNode(g),
                                         IF SeqType = "ST_Flow" THEN FALSE
                                         ELSE Was)
     ELSE IF SeqType = "ST_Block"
       THEN CASE T = "TK_BlockEnd" -> AtEnd(g)
              [] T = "TK_Error" -> AtEnd(p)
              [] OTHER ->
                   AtEnd(Document_setError(p,
                     "Unexpected token. Expected Block Entry or Block End."))
     ELSE IF SeqType = "ST_Indentless" THEN AtEnd(p)
     ELSE CASE T = "TK_FlowEntry" ->
                 SequenceNode_increment(g, SeqType, TRUE)
            [] T = "TK_FlowSequenceEnd" -> AtEnd(g)
            [] T = "TK_Error" -> AtEnd(p)
            [] T \in {"TK_StreamEnd", "TK_DocumentEnd", "TK_DocumentStart"} ->
                 AtEnd(Document_setError(p, "Could not find closing ]!"))
            [] OTHER ->
                 AtEnd(Document_setError(p, "Expected , between entries!"))

(* SequenceNode::increment without the getNext() of TK_BlockEnd. *)
SequenceNode_increment_peekedKeepsEnd(p, SeqType, Was) ==
  SequenceNode_increment_token(p,
    GetNextIf(p, CASE SeqType = "ST_Block" -> {"TK_BlockEntry"}
                   [] SeqType = "ST_Indentless" -> {"TK_BlockEntry"}
                   [] OTHER -> {"TK_FlowEntry", "TK_FlowSequenceEnd"}),
    SeqType, Was)

SequenceNode_increment_peeked(p, SeqType, Was) ==
  SequenceNode_increment_token(p,
    GetNextIf(p, CASE SeqType = "ST_Block" -> {"TK_BlockEntry", "TK_BlockEnd"}
                   [] SeqType = "ST_Indentless" -> {"TK_BlockEntry"}
                   [] OTHER -> {"TK_FlowEntry", "TK_FlowSequenceEnd"}),
    SeqType, Was)

SequenceNode_increment(s, SeqType, Was) ==
  IF failed(s) THEN [s |-> s, n |-> "none", was |-> Was, atEnd |-> TRUE]
  ELSE SequenceNode_increment_peeked(Document_peekNext(s), SeqType, Was)

(* Node::skip and its overrides.  A call through the null pointer stops    *)
(* the process.                                                            *)
RECURSIVE Node_skip(_, _)
RECURSIVE MappingNode_loop(_, _, _)
RECURSIVE SequenceNode_loop(_, _, _)

(* KeyValueNode::skip: getKey()->skip(); getValue()->skip(). *)
KeyValueNode_skip_node(r) == Node_skip(r.s, r.n)

KeyValueNode_skip(s) ==
  KeyValueNode_skip_node(
    KeyValueNode_getValue(KeyValueNode_skip_node(KeyValueNode_getKey(s))))

(* MappingNode::skip from its beginning, "for (i = begin(); i != e; ++i)   *)
(* i->skip()": _loop makes the increment of begin() or of ++i, r is what   *)
(* it left.                                                                *)
MappingNode_entry(r, Type) ==
  IF r.s.Abort # "" THEN r.s
  ELSE IF ~r.entry THEN Node_loopEnded(r.s, r.atEnd)
  ELSE MappingNode_loop(Node_nextEntry(KeyValueNode_skip(r.s)), Type, TRUE)

MappingNode_loop(s, Type, HasEntry) ==
  MappingNode_entry(MappingNode_increment(s, Type, HasEntry), Type)

MappingNode_skip(s, Type) == MappingNode_loop(s, Type, FALSE)

(* SequenceNode::skip from its beginning. *)
SequenceNode_entry(r, SeqType) ==
  IF r.s.Abort # "" THEN r.s
  ELSE IF r.n = "none" THEN Node_loopEnded(r.s, r.atEnd)
  ELSE SequenceNode_loop(Node_nextEntry(Node_skip(r.s, r.n)), SeqType, r.was)

SequenceNode_loop(s, SeqType, Was) ==
  SequenceNode_entry(SequenceNode_increment(s, SeqType, Was), SeqType)

SequenceNode_skip(s, SeqType) ==
  SequenceNode_loop(s, SeqType, InitWasPreviousTokenFlowEntry)

Node_skip(s, n) ==
  IF s.Abort # "" THEN s
  ELSE IF n = "0" THEN [s EXCEPT !.Abort = "segv"]
  ELSE IF n \in MappingTypes THEN MappingNode_skip(s, n)
  ELSE IF n \in SequenceTypes THEN SequenceNode_skip(s, n)
  ELSE s

(* Document::parseDirectives: the scanner and isDirective; p has T peeked. *)
RECURSIVE parseDirectives(_, _)
parseDirectives_peeked(p, isDirective) ==
  IF PeekedKind(p) \in {"TK_TagDirective", "TK_VersionDirective"}
    THEN parseDirectives(Document_getNext(p), TRUE)
    ELSE [s |-> p, isDirective |-> isDirective]

parseDirectives(s, isDirective) ==
  parseDirectives_peeked(Document_peekNext(s), isDirective)

(* Document::expectToken(TK); g is the scanner after "Token T = getNext()" *)
expectToken_got(g, TK) ==
  IF g.Abort # "" \/ g.Delivered[Len(g.Delivered)].Kind = TK THEN g
  ELSE setError(g, "Unexpected token", g.Delivered[Len(g.Delivered)].Range.b)

expectToken(s, TK) == expectToken_got(Document_getNext(s), TK)

(* Document::Document(Stream &): d is what parseDirectives returned. *)
Document_start(p) == GetNextIf(p, {"TK_DocumentStart"})

Document_directives(d) ==
  Document_start(
    Document_peekNext(IF d.isDirective
                        THEN expectToken(d.s, "TK_DocumentStart") ELSE d.s))

Document(s) == Document_directives(parseDirectives(s, FALSE))

(* Document::getRoot.  The assertion "getRoot may only be called once per  *)
(* document!" fails when Root is set; a build without assertions parses a  *)
(* new root (see Outcomes).                                                *)
Document_getRoot(s, Root) ==
  parseBlockNode(IF Root # "0" /\ s.Build = "any"
                   THEN [s EXCEPT !.Hit = @ \cup {"assert"}] ELSE s)

(* Document::skip.  Root is "0" until getRoot has set it; RootAtEnd tells  *)
(* that a collection at the root has been iterated to its end, so that     *)
(* Root->skip() does nothing.  The result: the scanner, the value          *)
(* returned, and Root.  g is the root with the scanner after "if (!Root)   *)
(* getRoot()", p the scanner with T peeked.                                *)
RECURSIVE Document_skip(_, _, _)
Document_skip_peeked(p, Root) ==
  IF PeekedKind(p) = "TK_DocumentEnd"
    THEN Document_skip(Document_getNext(p), Root, TRUE)
    ELSE [s |-> p, Root |-> Root, RootAtEnd |-> TRUE,
          more |-> p.Abort = "" /\ PeekedKind(p) # "TK_StreamEnd"]

(* Document::skip that leaves the root alone: "Root->skip()" is not made. *)
Document_skipNoRoot_root(g) ==
  Document_skip_peeked(Document_peekNext(g.s), g.n)

Document_skipNoRoot(s, Root, RootAtEnd) ==
  IF s.Abort # "" \/ failed(s)
    THEN [s |-> s, more |-> FALSE, Root |-> Root, RootAtEnd |-> RootAtEnd]
  ELSE Document_skipNoRoot_root(IF Root = "0" THEN Document_getRoot(s, Root)
                                ELSE [s |-> s, n |-> Root])

Document_skip_root(g, RootAtEnd) ==
  Document_skip_peeked(
    Document_peekNext(IF RootAtEnd THEN Node_skipAgain(g.s)
                      ELSE Node_skip(g.s, g.n)), g.n)

Document_skip(s, Root, RootAtEnd) ==
  IF s.Abort # "" \/ failed(s)
    THEN [s |-> s, more |-> FALSE, Root |-> Root, RootAtEnd |-> RootAtEnd]
  ELSE Document_skip_root(IF Root = "0" THEN Document_getRoot(s, Root)
                          ELSE [s |-> s, n |-> Root],
                          RootAtEnd /\ Root # "0")

----------------------------------------------------------------------------
(* Strings of bytes outside the scanner: yaml::escape and                  *)
(* ScalarNode::getValue.  A string is a sequence of bytes, indexed from 1. *)

(* utohexstr: the digits of X in base 16, upper case, "0" for 0. *)
HexDigit(d) == IF d < 10 THEN 48 + d ELSE 55 + d

RECURSIVE utohexstr(_)
utohexstr(X) ==
  IF X < 16 THEN <<HexDigit(X)>>
  ELSE Append(utohexstr(X \div 16), HexDigit(X % 16))

(* std::string(n, '0') *)
Zeros(n) == [i \in 1..n |-> 48]

(* encodeUTF8 *)
encodeUTF8(v) ==
  IF v <= 127 THEN <<v>>
  ELSE IF v <= 2047 THEN <<192 + (v \div 64), 128 + (v % 64)>>
  ELSE IF v <= 65535
    THEN <<224 + (v \div 4096), 128 + ((v \div 64) % 64), 128 + (v % 64)>>
  ELSE IF v <= 1114111
    THEN <<240 + (v \div 262144), 128 + ((v \div 4096) % 64),
           128 + ((v \div 64) % 64), 128 + (v % 64)>>
  ELSE <<>>

(* decodeUTF8(StringRef(i, Input.end() - i)) on the string S: its tests    *)
(* of the end are those of a position as far from End as i is from the end *)
(* of S.                                                                   *)
ByteAt(S, i) == IF i <= Len(S) THEN S[i] ELSE 0

decodeUTF8_in(S, i) ==
  decodeUTF8_bytes(End - (Len(S) - i + 1), ByteAt(S, i), ByteAt(S, i + 1),
                   ByteAt(S, i + 2), ByteAt(S, i + 3))

(* yaml::escape.  The result: out, and thrown when std::string(size_t(-1), *)
(* '0') has thrown std::length_error (a control character whose HexStr has *)
(* one digit).  i is the iterator, Out is EscapedInput; in _utf8 d is what *)
(* decodeUTF8 returned.                                                    *)
EscapeTable(c) ==
  CASE c = 92 -> <<92, 92>>
    [] c = 34 -> <<92, 34>>
    [] c = 0 -> <<92, 48>>
    [] c = 7 -> <<92, 97>>
    [] c = 8 -> <<92, 98>>
    [] c = 9 -> <<92, 116>>
    [] c = 10 -> <<92, 110>>
    [] c = 11 -> <<92, 118>>
    [] c = 12 -> <<92, 102>>
    [] c = 13 -> <<92, 114>>
    [] c = 27 -> <<92, 101>>
    [] OTHER -> <<>>

(* The escape of a multi-byte character without the zeros in front of     *)
(* HexStr.                                                                 *)
escape_scalarNoZeros(cp, HexStr) ==
  CASE cp = 133 -> <<92, 78>>
    [] cp = 160 -> <<92, 95>>
    [] cp = 8232 -> <<92, 76>>
    [] cp = 8233 -> <<92, 80>>
    [] OTHER ->
         IF Len(HexStr) <= 2 THEN <<92, 120>> \o HexStr
         ELSE IF Len(HexStr) <= 4 THEN <<92, 117>> \o HexStr
         ELSE <<92, 85>> \o HexStr

escape_scalar(cp, HexStr) ==
  CASE cp = 133 -> <<92, 78>>
    [] cp = 160 -> <<92, 95>>
    [] cp = 8232 -> <<92, 76>>
    [] cp = 8233 -> <<92, 80>>
    [] OTHER ->
         IF Len(HexStr) <= 2 THEN <<92, 120>> \o Zeros(2 - Len(HexStr)) \o HexStr
         ELSE IF Len(HexStr) <= 4
           THEN <<92, 117>> \o Zeros(4 - Len(HexStr)) \o HexStr
         ELSE <<92, 85>> \o Zeros(8 - Len(HexStr)) \o HexStr

RECURSIVE escape_from(_, _, _)
escape_utf8(S, i, Out, d) ==
  IF d.len = 0
    THEN [out |-> Out \o encodeUTF8(65533), thrown |-> FALSE]
    ELSE escape_from(S, i + d.len,
                     Out \o escape_scalar(d.cp, utohexstr(d.cp)))

escape_from(S, i, Out) ==
  IF i > Len(S) THEN [out |-> Out, thrown |-> FALSE]
  ELSE IF EscapeTable(S[i]) # <<>>
    THEN escape_from(S, i + 1, Out \o EscapeTable(S[i]))
  ELSE IF S[i] < 32
    THEN IF Len(utohexstr(S[i])) < 2 THEN [out |-> Out, thrown |-> TRUE]
         ELSE escape_from(S, i + 1, Out \o <<92, 120>> \o utohexstr(S[i]))
  ELSE IF S[i] >= 128 THEN escape_utf8(S, i, Out, decodeUTF8_in(S, i))
  ELSE escape_from(S, i + 1, Append(Out, S[i]))

escape(S) == escape_from(S, 1, <<>>)

(* StringRef::getAsInteger(16, Result): the value of the digits D, or      *)
(* Result left as it was (Garbage, never initialised) when D is not a      *)
(* number.                                                                 *)
HexDigitValue(c) ==
  IF c >= 48 /\ c <= 57 THEN c - 48
  ELSE IF c >= 65 /\ c <= 70 THEN c - 55
  ELSE IF c >= 97 /\ c <= 102 THEN c - 87
  ELSE -1

RECURSIVE HexValue(_)
HexValue(D) ==
  IF D = <<>> THEN 0
  ELSE 16 * HexValue(SubSeq(D, 1, Len(D) - 1)) + HexDigitValue(D[Len(D)])

getAsInteger(D, Garbage) ==
  IF D # <<>> /\ \A k \in 1..Len(D) : HexDigitValue(D[k]) >= 0
    THEN HexValue(D) ELSE Garbage

(* substr(n) *)
Drop(U, n) == SubSeq(U, n + 1, Len(U))

(* find_first_of("\\\r\n") and find('\''), 0 for npos *)
FindFirstOf(U, Chars) ==
  IF \E k \in 1..Len(U) : U[k] \in Chars
    THEN CHOOSE k \in 1..Len(U) :
           U[k] \in Chars /\ \A j \in 1..(k - 1) : U[j] \notin Chars
    ELSE 0

(* ScalarNode::getValue, the double-quoted scalar.  The result: the value  *)
(* v, how the function ended: "ok", "error" (setError("Unrecognized escape  *)
(* code!") and "" returned) or "hang" (the loop finds the same '\' at the  *)
(* end of the value again and again), and the length left of UnquotedValue *)
(* there.  U is UnquotedValue, St is Storage; in _escape U begins with the *)
(* character behind the '\'.                                               *)
SimpleEscape(c) ==
  CASE c = 48 -> <<0>>
    [] c = 97 -> <<7>>
    [] c = 98 -> <<8>>
    [] c = 116 -> <<9>>
    [] c = 9 -> <<9>>
    [] c = 110 -> <<10>>
    [] c = 118 -> <<11>>
    [] c = 102 -> <<12>>
    [] c = 114 -> <<13>>
    [] c = 101 -> <<27>>
    [] c = 32 -> <<32>>
    [] c = 34 -> <<34>>
    [] c = 47 -> <<47>>
    [] c = 92 -> <<92>>
    [] c = 78 -> encodeUTF8(133)
    [] c = 95 -> encodeUTF8(160)
    [] c = 76 -> encodeUTF8(8232)
    [] c = 80 -> encodeUTF8(8233)
    [] OTHER -> <<>>

(* The digits an escape x, u or U takes, 0 for any other character. *)
EscapeDigits(c) ==
  CASE c = 120 -> 2
    [] c = 117 -> 4
    [] c = 85 -> 8
    [] OTHER -> 0

IsBreak(U, k) == Len(U) >= k /\ U[k] \in {CH_CR, CH_LF}

RECURSIVE unescapeDoubleQuoted(_, _, _)
unescape_escape(U, St, Garbage) ==
  IF IsBreak(U, 1)
    THEN unescapeDoubleQuoted(Drop(U, IF IsBreak(U, 2) THEN 2 ELSE 1), St,
                              Garbage)
  ELSE IF SimpleEscape(U[1]) # <<>>
    THEN unescapeDoubleQuoted(Drop(U, 1), St \o SimpleEscape(U[1]), Garbage)
  ELSE IF EscapeDigits(U[1]) = 0
    THEN [v |-> <<>>, end |-> "error", left |-> Len(U)]
  ELSE IF Len(U) < EscapeDigits(U[1]) + 1
    THEN unescapeDoubleQuoted(Drop(U, 1), St, Garbage)
  ELSE unescapeDoubleQuoted(
         Drop(U, EscapeDigits(U[1]) + 1),
         St \o encodeUTF8(getAsInteger(SubSeq(U, 2, EscapeDigits(U[1]) + 1),
                                       Garbage)),
         Garbage)

unescape_at(U, St, Garbage) ==
  IF IsBreak(U, 1)
    THEN unescapeDoubleQuoted(Drop(U, IF IsBreak(U, 2) THEN 2 ELSE 1),
                              Append(St, CH_LF), Garbage)
  ELSE IF Len(U) = 1 THEN [v |-> St, end |-> "hang", left |-> 1]
  ELSE unescape_escape(Drop(U, 1), St, Garbage)

unescape_found(U, St, Garbage, i) ==
  IF i = 0 THEN [v |-> St \o U, end |-> "ok", left |-> 0]
  ELSE unescape_at(Drop(U, i - 1), St \o SubSeq(U, 1, i - 1), Garbage)

unescapeDoubleQuoted(U, St, Garbage) ==
  unescape_found(U, St, Garbage, FindFirstOf(U, {CH_BACKSLASH, CH_CR, CH_LF}))

(* The single-quoted scalar: every ' found stands for '' and gives one '. *)
RECURSIVE unescapeSingleQuoted(_, _)
unescapeSingle_found(U, St, i) ==
  IF i = 0 THEN [v |-> St \o U, end |-> "ok", left |-> 0]
  ELSE unescapeSingleQuoted(Drop(U, i + 1),
                            Append(St \o SubSeq(U, 1, i - 1), CH_SQUOTE))

unescapeSingleQuoted(U, St) ==
  unescapeSingle_found(U, St, FindFirstOf(U, {CH_SQUOTE}))

(* ScalarNode::getValue on the text Value of a Scalar token *)
ScalarNode_getValue(Value, Garbage) ==
  IF Value[1] = CH_DQUOTE
    THEN unescapeDoubleQuoted(SubSeq(Value, 2, Len(Value) - 1), <<>>, Garbage)
  ELSE IF Value[1] = CH_SQUOTE
    THEN unescapeSingleQuoted(SubSeq(Value, 2, Len(Value) - 1), <<>>)
  ELSE [v |-> Value, end |-> "ok", left |-> 0]

----------------------------------------------------------------------------
(* The caller's view of the last call on the scanner: the operation, the   *)
(* token it returned (tok), whether Failed was set when it was made        *)
(* (failedBefore), and the token the last peekNext returned if no getNext  *)
(* has removed it since (held, in arena slot heldSlot; as they were before *)
(* the call: prev, prevSlot).                                              *)
NoToken == Tok("none", NullRange)

InitRet ==
  [op |-> "none", tok |-> NoToken, failedBefore |-> FALSE,
   held |-> NoToken, heldSlot |-> 0, prev |-> NoToken, prevSlot |-> 0]

Aborted(r) == [r EXCEPT !.op = "abort"]

AfterPeek(r, s0, n) ==
  [op |-> "peek", tok |-> Front(n), failedBefore |-> s0.Failed,
   held |-> Front(n), heldSlot |-> Head(n.TokenQueue),
   prev |-> r.held, prevSlot |-> r.heldSlot]

AfterGet(r, s0, n) ==
  [op |-> "get", tok |-> n.Delivered[Len(n.Delivered)],
   failedBefore |-> s0.Failed, held |-> NoToken, heldSlot |-> 0,
   prev |-> r.held, prevSlot |-> r.heldSlot]

AfterSetError(r, s0) ==
  [r EXCEPT !.op = "setError", !.failedBefore = s0.Failed]

----------------------------------------------------------------------------
(* The scanner driven through its interface, as yaml::dumpTokens and the   *)
(* document parser drive it: peekNext, getNext, and the parser's report of *)
(* an error at a token it was given (Document::setError).                  *)

(* The longest input enumerated in full, and the tokens a run asks for. *)
MaxLen == 3
MaxDelivered == 8

Alphabet == {CH_SP, CH_LF, CH_MINUS, CH_COLON, CH_a, CH_LBRACKET, CH_PIPE}

RECURSIVE SeqsUpTo(_, _)
SeqsUpTo(S, n) ==
  IF n = 0 THEN {<<>>}
  ELSE LET R == SeqsUpTo(S, n - 1) IN
       R \cup {Append(x, c) : x \in {y \in R : Len(y) = n - 1}, c \in S}

(* Longer inputs, each taking the scanner somewhere no short input does:   *)
(*   [!<!<:       two failed fetches inside a flow sequence, then ':'      *)
(*   -\na:_       a mapping key at the column of an open block sequence    *)
(*   a:\n%b       a directive that is not %YAML under an open mapping      *)
(*   a:\n b\n\tc  a tab in the indentation of a plain scalar               *)
(*   [a:b]        ':' inside a plain scalar of a flow sequence             *)
(*   'a'\n--- [a] two documents                                            *)
(*   "a           a double-quoted scalar that is not closed                *)
(*   -_-_         a block sequence inside a block sequence                 *)
(*   -_&a_a\n\t   a failed fetch after a line break, a candidate pending   *)
(*   !a_&a_a      a scalar with a tag and an anchor in front                *)
(*   &a_&a        two anchors in front of one node                          *)
(*   a:\n-_a      a sequence without indentation as a mapping's value       *)
(*   ]            a ']' that closes nothing                                 *)
(*   []][         a ']' that closes nothing, between two '['               *)
(*   {}}          a '}' that closes nothing                                 *)
(*   [a,a[        a flow sequence, its third entry without ',' before it    *)
(*   [a,a         a flow sequence that is not closed                        *)
(*   [a:_a]       a mapping of one entry as the entry of a flow sequence    *)
(*   ?_"a         an explicit key that is a scalar not closed               *)
(* and the three documents below.                                          *)

(* "- - 1\n  - 2\n- 3\n" *)
NestedSequenceInput ==
  <<45, 32, 45, 32, 49, 10, 32, 32, 45, 32, 50, 10, 45, 32, 51, 10>>

(* "?: v\n" *)
QuestionColonInput == <<63, 58, 32, 118, 10>>

(* "key: [ a, b ]\nother: c\n" *)
FlowInMappingInput ==
  <<107, 101, 121, 58, 32, 91, 32, 97, 44, 32, 98, 32, 93, 10,
    111, 116, 104, 101, 114, 58, 32, 99, 10>>

LongInputs ==
  { <<CH_LBRACKET, CH_BANG, CH_LT, CH_BANG, CH_LT, CH_COLON>>,
    <<CH_MINUS, CH_LF, CH_a, CH_COLON, CH_SP>>,
    <<CH_a, CH_COLON, CH_LF, CH_PERCENT, CH_b>>,
    <<CH_a, CH_COLON, CH_LF, CH_SP, CH_b, CH_LF, CH_TAB, CH_a>>,
    <<CH_LBRACKET, CH_a, CH_COLON, CH_b, CH_RBRACKET>>,
    <<CH_SQUOTE, CH_a, CH_SQUOTE, CH_LF, CH_MINUS, CH_MINUS, CH_MINUS, CH_SP,
      CH_LBRACKET, CH_a, CH_RBRACKET>>,
    <<CH_DQUOTE, CH_a>>,
    <<CH_MINUS, CH_SP, CH_MINUS, CH_SP>>,
    <<CH_MINUS, CH_SP, CH_AMP, CH_a, CH_SP, CH_a, CH_LF, CH_TAB>>,
    <<CH_BANG, CH_a, CH_SP, CH_AMP, CH_a, CH_SP, CH_a>>,
    <<CH_AMP, CH_a, CH_SP, CH_AMP, CH_a>>,
    <<CH_a, CH_COLON, CH_LF, CH_MINUS, CH_SP, CH_a>>,
    <<CH_RBRACKET>>,
    <<CH_LBRACKET, CH_RBRACKET, CH_RBRACKET, CH_LBRACKET>>,
    <<CH_LBRACE, CH_RBRACE, CH_RBRACE>>,
    <<CH_LBRACKET, CH_a, CH_COMMA, CH_a, CH_LBRACKET>>,
    <<CH_LBRACKET, CH_a, CH_COMMA, CH_a>>,
    <<CH_LBRACKET, CH_a, CH_COLON, CH_SP, CH_a, CH_RBRACKET>>,
    <<CH_QUESTION, CH_SP, CH_DQUOTE, CH_a>>,
    <<CH_AMP, CH_SP, CH_a>>,
    <<CH_STAR, CH_SP, CH_a>>,
    <<CH_a, CH_COLON, CH_SP, CH_a>>,
    NestedSequenceInput,
    QuestionColonInput,
    FlowInMappingInput }

Inputs == SeqsUpTo(Alphabet, MaxLen) \cup LongInputs

(* The Stream and its document iterator:                                   *)
(*   CurrentDoc  Stream::CurrentDoc is set                                 *)
(*   Doc         the iterator refers to a document (it is not end())       *)
(*   Root, RootAtEnd  the document's root (see Document_skip)              *)
(*   op, more, fresh  the last operation, what Document::skip returned,    *)
(*               and whether Root was 0 when it was called                 *)
(*   docStart    how many tokens had been delivered when the document was  *)
(*               constructed                                               *)
InitStream ==
  [CurrentDoc |-> FALSE, Doc |-> FALSE, Root |-> "0", RootAtEnd |-> FALSE,
   op |-> "none", more |-> FALSE, fresh |-> FALSE, docStart |-> 0]

Init ==
  /\ Input \in Inputs
  /\ sc = InitScanner
  /\ ret = InitRet
  /\ st = InitStream

PeekNext ==
  /\ sc.Abort = ""
  /\ \E n \in Outcomes(sc, peekNext(sc)) :
       /\ sc' = n
       /\ ret' = IF n.Abort = "" THEN AfterPeek(ret, sc, n) ELSE Aborted(ret)
  /\ UNCHANGED <<Input, st>>

GetNext ==
  /\ sc.Abort = ""
  /\ Len(sc.Delivered) < MaxDelivered
  /\ \E n \in Outcomes(sc, getNext(sc)) :
       /\ sc' = n
       /\ ret' = IF n.Abort = "" THEN AfterGet(ret, sc, n) ELSE Aborted(ret)
  /\ UNCHANGED <<Input, st>>

(* Document::setError(Message, Location) on the token the caller was last  *)
(* given: stream.scanner->setError(Message, Location.Range.begin()).       *)
SetError ==
  /\ sc.Abort = ""
  /\ ret.op \in {"peek", "get"}
  /\ sc' = setError(sc, "Unexpected token", ret.tok.Range.b)
  /\ ret' = AfterSetError(ret, sc)
  /\ UNCHANGED <<Input, st>>

Next == PeekNext \/ GetNext \/ SetError

Spec == Init /\ [][Next]_vars

----------------------------------------------------------------------------
(* The stream driven as Stream::skip drives it: begin(), then skip() on    *)
(* the document and ++ on the iterator, with getRoot() where a client      *)
(* wants the root.                                                         *)

StreamAborted == [st EXCEPT !.op = "abort"]

(* Stream::begin without its test of CurrentDoc. *)
Stream_beginAgain ==
  /\ sc.Abort = ""
  /\ \E n \in Outcomes(sc, Document(Document_getNext(sc))) :
       /\ sc' = n
       /\ st' = IF n.Abort # "" THEN StreamAborted
                ELSE [CurrentDoc |-> TRUE, Doc |-> TRUE, Root |-> "0",
                      RootAtEnd |-> FALSE, op |-> "begin",
                      more |-> FALSE, fresh |-> FALSE,
                      docStart |-> Len(n.Delivered)]
  /\ UNCHANGED <<Input, ret>>

(* Stream::begin *)
Stream_begin ==
  /\ sc.Abort = ""
  /\ IF st.CurrentDoc
       THEN /\ sc' = [sc EXCEPT !.Abort = "fatal"]
            /\ st' = StreamAborted
       ELSE \E n \in Outcomes(sc, Document(Document_getNext(sc))) :
              /\ sc' = n
              /\ st' = IF n.Abort # "" THEN StreamAborted
                       ELSE [CurrentDoc |-> TRUE, Doc |-> TRUE, Root |-> "0",
                             RootAtEnd |-> FALSE, op |-> "begin",
                             more |-> FALSE, fresh |-> FALSE,
                             docStart |-> Len(n.Delivered)]
  /\ UNCHANGED <<Input, ret>>

(* Document::getRoot on the iterator's document *)
GetRoot ==
  /\ sc.Abort = ""
  /\ st.Doc
  /\ \E r \in {Document_getRoot(sc, st.Root)} :
     \E n \in Outcomes(sc, r.s) :
       /\ sc' = n
       /\ st' = IF n.Abort # "" THEN StreamAborted
                ELSE [st EXCEPT !.Root = r.n, !.RootAtEnd = FALSE,
                                !.op = "getRoot"]
  /\ UNCHANGED <<Input, ret>>

(* operator++ that constructs a new Document whatever skip returned. *)
IncrementAlways ==
  /\ sc.Abort = ""
  /\ st.Doc
  /\ \E r \in {Document_skip(sc, st.Root, st.RootAtEnd)} :
     \E n \in Outcomes(sc, Document(r.s)) :
       /\ sc' = n
       /\ st' = IF n.Abort # "" THEN StreamAborted
                ELSE [st EXCEPT !.Root = "0", !.RootAtEnd = FALSE,
                                !.op = "increment", !.more = TRUE,
                                !.docStart = Len(n.Delivered)]
  /\ UNCHANGED <<Input, ret>>

(* Document::skip on the iterator's document *)
Skip ==
  /\ sc.Abort = ""
  /\ st.Doc
  /\ \E r \in {Document_skip(sc, st.Root, st.RootAtEnd)} :
     \E n \in Outcomes(sc, r.s) :
       /\ sc' = n
       /\ st' = IF n.Abort # "" THEN StreamAborted
                ELSE [st EXCEPT !.Root = r.Root, !.RootAtEnd = r.RootAtEnd,
                                !.op = "skip", !.more = r.more,
                                !.fresh = (st.Root = "0")]
  /\ UNCHANGED <<Input, ret>>

(* document_iterator::operator++: "if (!Doc->skip()) Doc = 0; else" a new  *)
(* Document is constructed in its place.                                   *)
Increment ==
  /\ sc.Abort = ""
  /\ st.Doc
  /\ \E r \in {Document_skip(sc, st.Root, st.RootAtEnd)} :
     \E n \in Outcomes(sc, IF r.more THEN Document(r.s) ELSE r.s) :
       /\ sc' = n
       /\ st' = IF n.Abort # "" THEN StreamAborted
                ELSE IF r.more
                  THEN [st EXCEPT !.Root = "0", !.RootAtEnd = FALSE,
                                  !.op = "increment", !.more = TRUE,
                                  !.docStart = Len(n.Delivered)]
                ELSE [st EXCEPT !.Doc = FALSE, !.Root = r.Root,
                                !.RootAtEnd = r.RootAtEnd,
                                !.op = "increment", !.more = FALSE]
  /\ UNCHANGED <<Input, ret>>

NextDoc == Stream_begin \/ GetRoot \/ Skip \/ Increment

SpecDoc == Init /\ [][NextDoc]_vars

----------------------------------------------------------------------------
(* The scanner followed through peekNext one iteration of its loop at a    *)
(* time.  ret.op tells where the caller is: "more" inside peekNext, the    *)
(* head being a simple-key candidate (the next iteration has NeedMore      *)
(* set); "ready" when peekNext returns; "popped" after the rest of         *)
(* getNext.  A step taken anywhere but at "more" is the first iteration of *)
(* a new call of peekNext.                                                 *)

(* One iteration of the loop of peekNext, r being what its fetch returned. *)
peekNext_iteration(r) ==
  IF r.s.Abort # "" THEN r.s
  ELSE IF ~r.ok THEN FetchFailed(r.s)
  ELSE removeStaleSimpleKeyCandidates(r.s)

(* "if (std::find(...) == SimpleKeys.end()) break; else NeedMore = true" *)
peekNext_continues(r, n) == n.Abort = "" /\ r.ok /\ HeadIsCandidate(n)

ScanStep ==
  /\ sc.Abort = ""
  /\ ret.op # "abort"
  /\ \E r \in {peekNext_fetch(sc, ret.op = "more")} :
       \E n \in Outcomes(sc, peekNext_iteration(r)) :
         /\ sc' = n
         /\ ret' = [ret EXCEPT !.op = IF n.Abort # "" THEN "abort"
                                      ELSE IF peekNext_continues(r, n)
                                        THEN "more"
                                      ELSE "ready"]
  /\ UNCHANGED <<Input, st>>

(* getNext, after its peekNext has returned. *)
Deliver ==
  /\ sc.Abort = ""
  /\ ret.op = "ready"
  /\ Len(sc.Delivered) < MaxDelivered
  /\ sc' = PopFront(sc)
  /\ ret' = [ret EXCEPT !.op = "popped"]
  /\ UNCHANGED <<Input, st>>

NextScan == ScanStep \/ Deliver

SpecScan == Init /\ [][NextScan]_vars

----------------------------------------------------------------------------
(* getUnicodeEncoding applied to every input of up to MaxBomLen bytes that  *)
(* its tests tell apart: a null byte, the bytes of the byte order marks    *)
(* and one byte that is none of them.  st holds what it returned.          *)
MaxBomLen == 4

BomBytes == {0, 65, 187, 191, 239, 254, 255}

InitEnc ==
  /\ Input \in SeqsUpTo(BomBytes, MaxBomLen)
  /\ sc = InitScanner
  /\ ret = InitRet
  /\ st = [op |-> "none", EI |-> [form |-> "", len |-> 0]]

GetUnicodeEncoding ==
  /\ st.op = "none"
  /\ st' = [op |-> "getUnicodeEncoding", EI |-> getUnicodeEncoding(Input)]
  /\ UNCHANGED <<Input, sc, ret>>

NextEnc == GetUnicodeEncoding

SpecEnc == InitEnc /\ [][NextEnc]_vars

----------------------------------------------------------------------------
(* A string escaped, put between double quotes, scanned and read back with *)
(* getValue.  The string is made of up to MaxEscLen characters: some of    *)
(* the escape table, some that are copied, some of two, three and four     *)
(* bytes, and three that the claim about the round trip leaves out: a      *)
(* control character escaped by its number, one for which escape throws,   *)
(* and a byte that is not UTF-8.  st holds the characters (s), the state   *)
(* of the round trip (op), and what getValue returned (value, end).        *)
MaxEscLen == 2

TableChars == {<<92>>, <<34>>, <<0>>, <<7>>, <<9>>, <<10>>, <<13>>, <<27>>}

CopiedChars == {<<32>>, <<48>>, <<65>>, <<97>>, <<120>>, <<127>>}

EncodedChars ==
  {<<194, 133>>, <<194, 160>>, <<195, 169>>, <<226, 128, 168>>,
   <<226, 130, 172>>, <<239, 187, 191>>, <<240, 159, 152, 128>>}

OtherChars == {<<16>>, <<1>>, <<128>>}

EscChars == TableChars \cup CopiedChars \cup EncodedChars \cup OtherChars

RECURSIVE Flatten(_)
Flatten(C) == IF C = <<>> THEN <<>> ELSE Head(C) \o Flatten(Tail(C))

InitEsc ==
  /\ Input = <<>>
  /\ sc = InitScanner
  /\ ret = InitRet
  /\ st \in {[op |-> "none", s |-> c, value |-> <<>>, end |-> ""] :
               c \in SeqsUpTo(EscChars, MaxEscLen)}

(* '"' + escape(s) + '"' becomes the document. *)
Escape ==
  /\ st.op = "none"
  /\ \E e \in {escape(Flatten(st.s))} :
       IF e.thrown
         THEN /\ st' = [st EXCEPT !.op = "thrown"]
              /\ UNCHANGED Input
         ELSE /\ st' = [st EXCEPT !.op = "escaped"]
              /\ Input' = <<CH_DQUOTE>> \o e.out \o <<CH_DQUOTE>>
  /\ UNCHANGED <<sc, ret>>

(* The document is scanned. *)
ScanEscaped ==
  /\ st.op \in {"escaped", "getValue"}
  /\ GetNext

(* getValue on the ScalarNode of the Scalar token just delivered; an       *)
(* integer that getAsInteger did not set is Garbage.                       *)
GetValue ==
  /\ st.op = "escaped"
  /\ sc.Abort = ""
  /\ sc.Delivered # <<>>
  /\ ret.op = "get"
  /\ ret.tok.Kind = "TK_Scalar"
  /\ \E Garbage \in {0, 65533} :
     \E r \in {ScalarNode_getValue(
                 SubSeq(Input, ret.tok.Range.b + 1,
                        ret.tok.Range.b + ret.tok.Range.n), Garbage)} :
       /\ st' = [st EXCEPT !.op = "getValue", !.value = r.v, !.end = r.end]
       /\ sc' = IF r.end = "error"
                  THEN setError(sc, "Unrecognized escape code!",
                                ret.tok.Range.b + ret.tok.Range.n - 1 - r.left)
                  ELSE sc
  /\ UNCHANGED <<Input, ret>>

NextEsc == Escape \/ ScanEscaped \/ GetValue

SpecEsc == InitEsc /\ [][NextEsc]_vars

----------------------------------------------------------------------------
(* The first entry of a mapping at the root, read with getKey and getValue *)
(* as often as the caller likes.  st holds the KeyValueNode:               *)
(*   Key, Value  the members; a node is its kind (n, "0" for the null      *)
(*               pointer) and the order of its allocation (id)             *)
(*   KeySkipped  Key->skip() has been called                               *)
(*   made        how many nodes getKey and getValue have allocated         *)
(*   op, got     the last call and the node it returned                    *)
(*   again       the last call found its member set                        *)
(* In getValue key is Key after its getKey() and made the nodes allocated  *)
(* by then.                                                                *)
NullPointer == [n |-> "0", id |-> 0]

InitEntry ==
  [op |-> "entry", Key |-> NullPointer, Value |-> NullPointer,
   KeySkipped |-> FALSE, made |-> 0, got |-> NullPointer, again |-> FALSE]

(* A node of kind n allocated behind `made` others; parseBlockNode's 0 is  *)
(* no allocation.                                                          *)
NewNode(n, made) == IF n = "0" THEN NullPointer ELSE [n |-> n, id |-> made + 1]

(* Stream::begin(), getRoot() and, the root being a mapping, its begin(). *)
FirstEntry ==
  /\ st.op = "none"
  /\ sc.Abort = ""
  /\ \E g \in {Document_getRoot(Document(Document_getNext(sc)), "0")} :
     \E e \in {IF g.n \in MappingTypes
                 THEN MappingNode_increment(g.s, g.n, FALSE)
                 ELSE [s |-> g.s, entry |-> FALSE, atEnd |-> TRUE]} :
     \E n \in Outcomes(sc, e.s) :
       /\ sc' = n
       /\ st' = IF n.Abort = "" /\ e.entry THEN InitEntry
                ELSE [InitEntry EXCEPT !.op = "no entry"]
  /\ UNCHANGED <<Input, ret>>

(* KeyValueNode::getKey that parses whether Key is set or not. *)
GetKeyAgain ==
  /\ st.op \in {"entry", "getKey", "getValue"}
  /\ sc.Abort = ""
  /\ \E k \in {KeyValueNode_getKey(sc)} :
     \E n \in Outcomes(sc, k.s) :
       /\ sc' = n
       /\ st' = IF n.Abort # "" THEN [st EXCEPT !.op = "abort"]
                ELSE [st EXCEPT !.op = "getKey", !.again = FALSE,
                                !.Key = NewNode(k.n, st.made),
                                !.got = NewNode(k.n, st.made),
                                !.made = IF k.n = "0" THEN @ ELSE @ + 1]
  /\ UNCHANGED <<Input, ret>>

(* KeyValueNode::getKey *)
GetKey ==
  /\ st.op \in {"entry", "getKey", "getValue"}
  /\ sc.Abort = ""
  /\ IF st.Key # NullPointer
       THEN /\ st' = [st EXCEPT !.op = "getKey", !.got = st.Key,
                                !.again = TRUE]
            /\ sc' = sc
       ELSE \E k \in {KeyValueNode_getKey(sc)} :
            \E n \in Outcomes(sc, k.s) :
              /\ sc' = n
              /\ st' = IF n.Abort # "" THEN [st EXCEPT !.op = "abort"]
                       ELSE [st EXCEPT !.op = "getKey", !.again = FALSE,
                                       !.Key = NewNode(k.n, st.made),
                                       !.got = NewNode(k.n, st.made),
                                       !.made = IF k.n = "0" THEN @ ELSE @ + 1]
  /\ UNCHANGED <<Input, ret>>

(* KeyValueNode::getValue.  k is what its getKey() returned, s1 the        *)
(* scanner after "getKey()->skip()".                                       *)
GetEntryValue ==
  /\ st.op \in {"entry", "getKey", "getValue"}
  /\ sc.Abort = ""
  /\ IF st.Value # NullPointer
       THEN /\ st' = [st EXCEPT !.op = "getValue", !.got = st.Value,
                                !.again = TRUE]
            /\ sc' = sc
       ELSE \E k \in {IF st.Key # NullPointer THEN [s |-> sc, n |-> st.Key.n]
                      ELSE KeyValueNode_getKey(sc)} :
            \E s1 \in {IF st.Key # NullPointer /\ st.KeySkipped
                         THEN Node_skipAgain(k.s) ELSE Node_skip(k.s, k.n)} :
            \E v \in {KeyValueNode_getValue_key(s1)} :
            \E key \in {IF st.Key # NullPointer THEN st.Key
                        ELSE NewNode(k.n, st.made)} :
            \E made \in {IF key.id > st.made THEN key.id ELSE st.made} :
            \E n \in Outcomes(sc, v.s) :
              /\ sc' = n
              /\ st' = IF n.Abort # "" THEN [st EXCEPT !.op = "abort"]
                       ELSE [st EXCEPT !.op = "getValue", !.again = FALSE,
                                       !.Key = key,
                                       !.KeySkipped = TRUE,
                                       !.Value = NewNode(v.n, made),
                                       !.got = NewNode(v.n, made),
                                       !.made = IF v.n = "0" THEN made
                                                ELSE made + 1]
  /\ UNCHANGED <<Input, ret>>

NextKey == FirstEntry \/ GetKey \/ GetEntryValue

SpecKey == Init /\ [][NextKey]_vars

----------------------------------------------------------------------------
(* yaml::scanTokens: getNext in a loop until it returns StreamEnd ("break") *)
(* or Error ("return false"), followed one fetch of peekNext at a time.    *)
(* st.op tells where the loop is: "more" inside peekNext with NeedMore     *)
(* set, "ready" when peekNext has returned, "popped" when getNext has      *)
(* returned another token; st.fetch tells whether the last iteration of    *)
(* peekNext called fetchMoreTokens and what it returned.                   *)
ScanTokens_fetched(s, NeedMore, r) ==
  IF s.TokenQueue # <<>> /\ ~NeedMore THEN "none"
  ELSE IF r.ok THEN "true"
  ELSE "false"

ScanTokens_peek ==
  /\ sc.Abort = ""
  /\ st.op \in {"none", "more", "popped"}
  /\ \E r \in {peekNext_fetch(sc, st.op = "more")} :
       \E n \in Outcomes(sc, peekNext_iteration(r)) :
         /\ sc' = n
         /\ st' = [op |-> IF n.Abort # "" THEN "abort"
                          ELSE IF peekNext_continues(r, n) THEN "more"
                          ELSE "ready",
                   fetch |-> ScanTokens_fetched(sc, st.op = "more", r)]
  /\ UNCHANGED <<Input, ret>>

ScanTokens_get ==
  /\ sc.Abort = ""
  /\ st.op = "ready"
  /\ sc' = PopFront(sc)
  /\ st' = [op |-> IF Front(sc).Kind = "TK_StreamEnd" THEN "break"
                   ELSE IF Front(sc).Kind = "TK_Error" THEN "return false"
                   ELSE "popped",
            fetch |-> "none"]
  /\ UNCHANGED <<Input, ret>>

NextTokens == ScanTokens_peek \/ ScanTokens_get

(* ScanTokens_peek can be taken: the loop is about to call peekNext or is   *)
(* inside it.                                                              *)
ScanTokens_calls == sc.Abort = "" /\ st.op \in {"none", "more", "popped"}

(* The loop is the only thread of control, so it runs on while it can:     *)
(* both actions are weakly fair.  For ScanTokens_peek weak fairness is     *)
(* written out, with ScanTokens_calls as the enabling condition.           *)
SpecTokens ==
  /\ Init
  /\ [][NextTokens]_vars
  /\ WF_vars(ScanTokens_get)
  /\ ([]<>(~ScanTokens_calls) \/ []<><<ScanTokens_peek>>_vars)

----------------------------------------------------------------------------
(* The delivered token sequence. *)
KindCount(D, K) == Cardinality({i \in 1..Len(D) : D[i].Kind \in K})

BlockStarts == {"TK_BlockMappingStart", "TK_BlockSequenceStart"}

(* The block collections D has opened and not closed, innermost last:      *)
(* "M" for a block mapping, "S" for a block sequence.                      *)
RECURSIVE OpenBlocks(_)
OpenBlocks(D) ==
  IF D = <<>> THEN <<>>
  ELSE LET o == OpenBlocks(SubSeq(D, 1, Len(D) - 1))
           k == D[Len(D)].Kind
       IN IF k = "TK_BlockMappingStart" THEN Append(o, "M")
          ELSE IF k = "TK_BlockSequenceStart" THEN Append(o, "S")
          ELSE IF k = "TK_BlockEnd" /\ o # <<>> THEN SubSeq(o, 1, Len(o) - 1)
          ELSE o

Prefix(k) == SubSeq(sc.Delivered, 1, k)

(* k is where the first StreamEnd was delivered. *)
IsFirstStreamEnd(k) ==
  /\ sc.Delivered[k].Kind = "TK_StreamEnd"
  /\ KindCount(Prefix(k - 1), {"TK_StreamEnd"}) = 0

Balanced(k) ==
  KindCount(Prefix(k), {"TK_BlockEnd"}) = KindCount(Prefix(k), BlockStarts)

FlowStarts == {"TK_FlowSequenceStart", "TK_FlowMappingStart"}

FlowEnds == {"TK_FlowSequenceEnd", "TK_FlowMappingEnd"}

(* The tokens delivered since the iterator's document was constructed. *)
DocTokens == SubSeq(sc.Delivered, st.docStart + 1, Len(sc.Delivered))

(* Document::skip has just returned, called on a document whose root was   *)
(* not set.                                                                *)
FreshSkip == st.op = "skip" /\ st.fresh

(* The input has been valid so far: no error was reported, no Error token  *)
(* was delivered and none is at the head of the queue.                     *)
ValidSoFar ==
  /\ sc.Abort = ""
  /\ ~sc.Failed
  /\ KindCount(sc.Delivered, {"TK_Error"}) = 0
  /\ sc.TokenQueue # <<>>
  /\ Front(sc).Kind # "TK_Error"

(* The flow level behind the tokens D, from the level L: an opening token  *)
(* adds one, a closing token takes one away while the level is positive.   *)
RECURSIVE LevelBehind(_, _)
LevelBehind(D, L) ==
  IF D = <<>> THEN L
  ELSE LevelBehind(Tail(D),
                   IF Head(D).Kind \in FlowStarts THEN L + 1
                   ELSE IF Head(D).Kind \in FlowEnds /\ L > 0 THEN L - 1
                   ELSE L)

(* A Key delivered at k while the scanner was in block context. *)
IsBlockKey(k) ==
  /\ k > 1
  /\ sc.Delivered[k].Kind = "TK_Key"
  /\ sc.FlowAt[k] = 0

----------------------------------------------------------------------------
(* C1: two consecutive peekNext calls with no getNext between them return  *)
(* equal tokens (kind and range), and a getNext right after a peekNext     *)
(* returns a token equal to the one peeked.                                *)
C1_PeekIdempotent ==
  (ret.op \in {"peek", "get"} /\ ret.prev # NoToken) => ret.tok = ret.prev

(* C2: once peekNext has returned a token, a later peekNext changes        *)
(* neither which node is at the head of the queue nor its contents, until  *)
(* getNext removes it.                                                     *)
C2_HeadStable ==
  (ret.op = "peek" /\ ret.prevSlot # 0)
    => /\ Head(sc.TokenQueue) = ret.prevSlot
       /\ sc.Arena[ret.prevSlot] = ret.prev

(* C3: when peekNext returns a token that is not Error, no candidate in    *)
(* SimpleKeys refers to the head of the queue.                             *)
C3_HeadNotCandidate ==
  (ret.op = "peek" /\ ret.tok.Kind # "TK_Error")
    => \A i \in 1..Len(sc.SimpleKeys) :
         sc.SimpleKeys[i].Tok # Head(sc.TokenQueue)

(* C3, its case: peekNext went on fetching past a candidate head and       *)
(* returned with candidates left for later tokens.                         *)
C3_Witness ==
  /\ ret.op = "peek"
  /\ ret.tok.Kind = "TK_FlowSequenceStart"
  /\ sc.SimpleKeys # <<>>
  /\ Len(sc.TokenQueue) > 1

(* C4 as stated: in the tokens delivered up to and including StreamEnd     *)
(* there are as many BlockEnd as BlockMappingStart and BlockSequenceStart, *)
(* whatever the input.                                                     *)
C4_Original ==
  \A k \in 1..Len(sc.Delivered) : IsFirstStreamEnd(k) => Balanced(k)

(* C4, amended: the same when no Error token was delivered before          *)
(* StreamEnd and FlowLevel is 0 when StreamEnd is delivered (every flow    *)
(* collection opened was closed).                                          *)
C4_BlockEndsBalanced ==
  \A k \in 1..Len(sc.Delivered) :
    ( /\ IsFirstStreamEnd(k)
      /\ KindCount(Prefix(k), {"TK_Error"}) = 0
      /\ sc.FlowAt[k] = 0 )
    => Balanced(k)

(* C4, its case: StreamEnd delivered after two nested block collections. *)
C4_Witness ==
  \E k \in 1..Len(sc.Delivered) :
    /\ IsFirstStreamEnd(k)
    /\ KindCount(Prefix(k), {"TK_Error"}) = 0
    /\ sc.FlowAt[k] = 0
    /\ KindCount(Prefix(k), BlockStarts) >= 2

(* C5 as stated: every Key delivered while FlowLevel is 0 comes right      *)
(* after a BlockMappingStart, or after the last token of a previous entry  *)
(* of the same block mapping (the innermost open block collection is a     *)
(* mapping).                                                               *)
C5_Original ==
  \A k \in 1..Len(sc.Delivered) :
    IsBlockKey(k)
    => \/ sc.Delivered[k - 1].Kind = "TK_BlockMappingStart"
       \/ LET o == OpenBlocks(Prefix(k - 1)) IN o # <<>> /\ o[Len(o)] = "M"

(* C5, amended: every Key delivered while FlowLevel is 0 that is not       *)
(* inside a flow collection of the delivered tokens (peekNext scans ahead  *)
(* of a simple-key candidate, so the Key of "[a: a]" is delivered when the *)
(* scanner has left the collection), no Error token having been delivered, *)
(* comes right after a BlockMappingStart or lies inside a block collection *)
(* opened before it and not closed, a mapping or a sequence.               *)
C5_KeyInsideBlock ==
  \A k \in 1..Len(sc.Delivered) :
    ( /\ IsBlockKey(k)
      /\ LevelBehind(Prefix(k - 1), 0) = 0
      /\ KindCount(Prefix(k), {"TK_Error"}) = 0 )
    => \/ sc.Delivered[k - 1].Kind = "TK_BlockMappingStart"
       \/ OpenBlocks(Prefix(k - 1)) # <<>>

(* C5, its case: a Key that does not follow a BlockMappingStart. *)
C5_Witness ==
  \E k \in 1..Len(sc.Delivered) :
    /\ IsBlockKey(k)
    /\ LevelBehind(Prefix(k - 1), 0) = 0
    /\ KindCount(Prefix(k), {"TK_Error"}) = 0
    /\ sc.Delivered[k - 1].Kind # "TK_BlockMappingStart"

(* C6 as stated: for a valid input, after Document::skip on a document    *)
(* whose root had not been visited, the DocumentEnd or StreamEnd that      *)
(* terminates the document has been reached: a DocumentEnd was delivered   *)
(* for the document, or StreamEnd is the token the scanner holds next.     *)
C6_Original ==
  (FreshSkip /\ ValidSoFar)
    => \/ KindCount(DocTokens, {"TK_DocumentEnd"}) >= 1
       \/ Front(sc).Kind = "TK_StreamEnd"

(* C6, amended: for a valid input, after Document::skip on a document      *)
(* whose root had not been visited, the tokens delivered for the document  *)
(* close every block and flow collection they open; skip returned false    *)
(* exactly when StreamEnd is the next token, peeked and not consumed, and  *)
(* when it returned true the next token is neither StreamEnd nor           *)
(* DocumentEnd: a DocumentEnd behind the root has been consumed, and the   *)
(* document may as well end at the DocumentStart of the next one.          *)
C6_SkipConsumesRoot ==
  (FreshSkip /\ ValidSoFar)
    => /\ OpenBlocks(DocTokens) = <<>>
       /\ KindCount(DocTokens, {"TK_BlockEnd"}) = KindCount(DocTokens, BlockStarts)
       /\ KindCount(DocTokens, FlowEnds) = KindCount(DocTokens, FlowStarts)
       /\ st.more = (Front(sc).Kind # "TK_StreamEnd")
       /\ Front(sc).Kind # "TK_DocumentEnd"

(* C6, its case: skip went through a document whose root is a collection.  *)
C6_Witness ==
  /\ FreshSkip
  /\ ValidSoFar
  /\ KindCount(DocTokens, BlockStarts \cup FlowStarts) >= 1

(* C7: once Failed is true no operation sets it back to false. *)
C7_FailedMonotone == [][sc.Failed => sc'.Failed]_vars

(* C7, its case: an operation was carried out on a failed scanner. *)
C7_Witness ==
  sc.Failed /\ ret.failedBefore /\ ret.op \in {"peek", "get", "setError"}

(* C8: printError is called at most once over one stream. *)
C8_OneDiagnostic == Len(sc.Diag) <= 1

(* C8, its case: setError was called on a scanner that had failed. *)
C8_Witness ==
  ret.op = "setError" /\ ret.failedBefore /\ Len(sc.Diag) = 1

(* C9: once Failed is true, every peekNext and getNext returns a token of  *)
(* kind Error.                                                             *)
C9_ErrorSticky ==
  (ret.op \in {"peek", "get"} /\ ret.failedBefore)
    => ret.tok.Kind = "TK_Error"

(* C10: when peekNext or getNext returns an Error token, printError has    *)
(* been called and Failed is true.                                         *)
C10_ErrorReported ==
  (ret.op \in {"peek", "get"} /\ ret.tok.Kind = "TK_Error")
    => (sc.Failed /\ sc.Diag # <<>>)

(* C11: the byte offset of every diagnostic given to the sink is the       *)
(* Position that setError was called with.                                 *)
C11_DiagAtPosition ==
  \A i \in 1..Len(sc.Diag) : sc.Diag[i].Loc = sc.DiagPos[i]

(* C12 as stated: in every reachable state Indents is non-decreasing from *)
(* bottom to top, Indent >= -1, and Indent equals the top of Indents, or   *)
(* -1 when Indents is empty.                                               *)
C12_Original ==
  /\ \A i \in 1..Len(sc.Indents) - 1 : sc.Indents[i] <= sc.Indents[i + 1]
  /\ sc.Indent >= -1
  /\ sc.Indent = IF sc.Indents = <<>> THEN -1
                 ELSE sc.Indents[Len(sc.Indents)]

(* C12, amended: Indents holds the indents of the enclosing block          *)
(* collections, not the current one: it is strictly increasing from bottom *)
(* to top, its bottom is -1, its top is less than Indent, and it is empty  *)
(* exactly when Indent is -1; Indent >= -1.                                *)
C12_IndentStack ==
  /\ \A i \in 1..Len(sc.Indents) - 1 : sc.Indents[i] < sc.Indents[i + 1]
  /\ sc.Indent >= -1
  /\ (sc.Indents = <<>>) = (sc.Indent = -1)
  /\ sc.Indents # <<>>
       => /\ sc.Indents[1] = -1
          /\ sc.Indents[Len(sc.Indents)] < sc.Indent

(* C12, its case: two block collections are open, one inside the other. *)
C12_Witness == Len(sc.Indents) >= 2 /\ sc.Indent > sc.Indents[2]

BlockTokens == {"TK_BlockEnd", "TK_BlockMappingStart", "TK_BlockSequenceStart"}

(* C13: a scanner step taken while FlowLevel > 0 leaves Indent and Indents *)
(* unchanged and puts no BlockEnd, BlockMappingStart or BlockSequenceStart *)
(* token in the queue: every such token of the queue was there before.     *)
C13_FlowFrame ==
  [][ sc.FlowLevel > 0
        => /\ sc'.Indent = sc.Indent
           /\ sc'.Indents = sc.Indents
           /\ \A i \in 1..Len(sc'.TokenQueue) :
                sc'.Arena[sc'.TokenQueue[i]].Kind \in BlockTokens
                => \E j \in 1..Len(sc.TokenQueue) :
                     /\ sc.TokenQueue[j] = sc'.TokenQueue[i]
                     /\ sc.Arena[sc.TokenQueue[j]]
                          = sc'.Arena[sc'.TokenQueue[i]] ]_vars

(* C13, its case: inside a flow collection a "- " was scanned: a           *)
(* BlockEntry is queued where block context would have opened a sequence,  *)
(* and Indent is still -1.                                                 *)
C13_Witness ==
  /\ sc.FlowLevel > 0
  /\ sc.Indent = -1
  /\ \E i \in 1..Len(sc.TokenQueue) :
       /\ sc.Arena[sc.TokenQueue[i]].Kind = "TK_BlockEntry"
       /\ i > 1
       /\ sc.Arena[sc.TokenQueue[i - 1]].Kind \in {"TK_FlowSequenceStart", "TK_FlowEntry"}

(* A candidate that removeStaleSimpleKeyCandidates keeps. *)
IsLive(k) == k.Line = sc.Line /\ k.Column + SimpleKeyMaxColumns >= sc.Column

(* C14: whenever peekNext returns, every candidate left in       *)
(* SimpleKeys is on the current Line and within 1024 columns of the        *)
(* current Column.                                                         *)
C14_CandidatesLive ==
  ret.op = "peek"
    => \A i \in 1..Len(sc.SimpleKeys) : IsLive(sc.SimpleKeys[i])

(* C15: in every reachable state every candidate in SimpleKeys refers to   *)
(* a token that is an element of TokenQueue, and the assertion "SimpleKey  *)
(* not in token queue!" of scanValue, the only one the scanner can fail,   *)
(* has not failed.                                                         *)
C15_CandidatesQueued ==
  /\ \A i \in 1..Len(sc.SimpleKeys) :
       \E j \in 1..Len(sc.TokenQueue) : sc.TokenQueue[j] = sc.SimpleKeys[i].Tok
  /\ sc.Abort # "assert"

(* The scanner as the step about to be taken from sc enters the scan       *)
(* function of its token: after scanToNextToken,                           *)
(* removeStaleSimpleKeyCandidates and unrollIndent(Column).                *)
AtToken ==
  LET s1 == scanToNextToken(sc)
  IN unrollIndent(removeStaleSimpleKeyCandidates(s1), s1.Column)

(* The step about to be taken from sc fetches, and what it fetches is      *)
(* scanned by scanValue with a candidate in SimpleKeys.                    *)
EntersScanValue ==
  /\ sc.Abort = ""
  /\ ret.op # "abort"
  /\ sc.TokenQueue = <<>> \/ ret.op = "more"
  /\ ~sc.IsStartOfStream
  /\ sc.Current >= 0 /\ sc.Current < End
  /\ AtToken.Current # End
  /\ Ch(AtToken.Current) = CH_COLON
  /\ AtToken.FlowLevel # 0 \/ isBlankOrBreak(AtToken.Current + 1)
  /\ AtToken.SimpleKeys # <<>>

KindAt(s, i) == s.Arena[s.TokenQueue[i]].Kind

(* C16: when scanValue runs with a candidate in SimpleKeys it removes the  *)
(* last candidate and inserts a Key right before that candidate's token;   *)
(* in block context with Indent < the candidate's column it inserts a      *)
(* BlockMappingStart right before that Key; the Value token is the last of *)
(* the queue.                                                              *)
C16_KeyBeforeCandidate ==
  [][ EntersScanValue
        => LET pre == AtToken
               SK == pre.SimpleKeys[Len(pre.SimpleKeys)]
               q == sc'.TokenQueue
               p == PosOf(q, SK.Tok)
           IN /\ sc'.Abort = ""
              /\ sc'.SimpleKeys = SubSeq(pre.SimpleKeys, 1, Len(pre.SimpleKeys) - 1)
              /\ p <= Len(q)
              /\ p > 1
              /\ KindAt(sc', p - 1) = "TK_Key"
              /\ (pre.FlowLevel = 0 /\ pre.Indent < SK.Column)
                   => (p > 2 /\ KindAt(sc', p - 2) = "TK_BlockMappingStart")
              /\ sc'.Arena[q[Len(q)]]
                   = Tok("TK_Value", Range(pre.Current, 1)) ]_vars

(* A token the scanner made up: a BlockEnd, a BlockMappingStart, a         *)
(* BlockSequenceStart, or a Key that scanKey did not scan from a '?'.      *)
IsSynthetic(T) ==
  \/ T.Kind \in BlockTokens
  \/ /\ T.Kind = "TK_Key"
     /\ ~(T.Range.n = 1 /\ Ch(T.Range.b) = CH_QUESTION)

(* C17: every synthetic token delivered has a zero-length Range. *)
C17_SyntheticZeroLength ==
  \A k \in 1..Len(sc.Delivered) :
    IsSynthetic(sc.Delivered[k]) => sc.Delivered[k].Range.n = 0

(* C18: Stream::begin succeeds at most once.  A call made while           *)
(* CurrentDoc is not set consumes the StreamStart token, the first of the  *)
(* stream, and sets CurrentDoc; a call made while it is set ends in the    *)
(* fatal error and consumes no token.                                      *)
C18_BeginOnce ==
  [][ (st'.op = "begin" \/ sc'.Abort = "fatal")
        => IF st.CurrentDoc
             THEN /\ sc'.Abort = "fatal"
                  /\ sc' = [sc EXCEPT !.Abort = "fatal"]
             ELSE /\ st'.op = "begin"
                  /\ st'.CurrentDoc
                  /\ sc.Delivered = <<>>
                  /\ sc'.Delivered # <<>>
                  /\ sc'.Delivered[1].Kind = "TK_StreamStart" ]_vars

(* C18, its case: begin was called on a stream that had a document. *)
C18_Witness == sc.Abort = "fatal" /\ st.CurrentDoc /\ Len(sc.Delivered) >= 2

(* The tokens delivered since the document that the step leaves was       *)
(* constructed.                                                            *)
StepTokens ==
  SubSeq(sc'.Delivered, st.docStart + 1, Len(sc'.Delivered))

LastDelivered(s) == s.Delivered[Len(s.Delivered)]

PropertyKinds == {"TK_Anchor", "TK_Tag"}

ConsumedKinds ==
  {"TK_Alias", "TK_BlockSequenceStart", "TK_BlockMappingStart",
   "TK_FlowSequenceStart", "TK_FlowMappingStart", "TK_Scalar"}

GotTokens == SubSeq(sc'.Delivered, Len(sc.Delivered) + 1, Len(sc'.Delivered))

PropertyCount(D) ==
  Cardinality({i \in 1..Len(D) : \A j \in 1..i : D[j].Kind \in PropertyKinds})

AfterProperties(D) == SubSeq(D, PropertyCount(D) + 1, Len(D))

(* The node that answers a token left unconsumed. *)
UnconsumedNode(K) ==
  CASE K = "TK_BlockEntry" -> "ST_Indentless"
    [] K = "TK_Key" -> "MT_Inline"
    [] K = "TK_Error" -> "0"
    [] OTHER -> "NullNode"

(* C20 as stated: parseBlockNode consumes every Anchor and Tag token in    *)
(* front of the node, then exactly one token when the next is Alias,       *)
(* BlockSequenceStart, BlockMappingStart, FlowSequenceStart,               *)
(* FlowMappingStart or Scalar, and none when it is BlockEntry (indentless  *)
(* sequence), Key (inline mapping), Error (null) or any other kind (Null   *)
(* node).                                                                  *)
C20_Original ==
  [][ st'.op = "getRoot"
        => /\ Len(AfterProperties(GotTokens)) <= 1
           /\ AfterProperties(GotTokens) # <<>>
                => /\ AfterProperties(GotTokens)[1].Kind \in ConsumedKinds
                   /\ st'.Root = NodeOf(AfterProperties(GotTokens)[1].Kind)
           /\ AfterProperties(GotTokens) = <<>>
                => /\ sc'.TokenQueue # <<>>
                   /\ Front(sc').Kind \notin ConsumedKinds \cup PropertyKinds
                   /\ st'.Root = UnconsumedNode(Front(sc').Kind) ]_vars

(* C20, amended: parseBlockNode consumes the Tag tokens and at most one    *)
(* Anchor token in front of the node; at a second Anchor it sets the error *)
(* and returns null, the Anchor left unconsumed.  Otherwise it consumes    *)
(* exactly one token when the next is Alias, BlockSequenceStart,           *)
(* BlockMappingStart, FlowSequenceStart, FlowMappingStart or Scalar, and   *)
(* none when it is BlockEntry (indentless sequence), Key (inline mapping), *)
(* Error (null) or any other kind (Null node).                             *)
C20_ParseBlockNode ==
  [][ st'.op = "getRoot"
        => /\ Len(AfterProperties(GotTokens)) <= 1
           /\ KindCount(GotTokens, {"TK_Anchor"}) <= 1
           /\ AfterProperties(GotTokens) # <<>>
                => /\ AfterProperties(GotTokens)[1].Kind \in ConsumedKinds
                   /\ st'.Root = NodeOf(AfterProperties(GotTokens)[1].Kind)
           /\ AfterProperties(GotTokens) = <<>>
                => /\ sc'.TokenQueue # <<>>
                   /\ Front(sc').Kind \notin ConsumedKinds \cup {"TK_Tag"}
                   /\ IF Front(sc').Kind = "TK_Anchor"
                        THEN /\ KindCount(GotTokens, {"TK_Anchor"}) = 1
                             /\ sc'.Failed
                             /\ st'.Root = "0"
                        ELSE st'.Root = UnconsumedNode(Front(sc').Kind) ]_vars

(* C20, its case: a root has been parsed that has an Anchor in front and   *)
(* one token of its own.                                                   *)
C20_Witness ==
  /\ st.op = "getRoot"
  /\ st.Root \in {"ScalarNode", "ST_Flow", "MT_Flow", "AliasNode"}
  /\ Len(sc.Delivered) >= 3
  /\ sc.Delivered[Len(sc.Delivered) - 1].Kind = "TK_Anchor"
  /\ LastDelivered(sc).Kind \in ConsumedKinds

AnchorMessage == "Already encountered an anchor for this node!"

(* The step has consumed property tokens only, an Anchor among them, and   *)
(* the next token is an Anchor: parseBlockNode has met a second Anchor.    *)
SecondAnchorMet ==
  /\ AfterProperties(GotTokens) = <<>>
  /\ KindCount(GotTokens, {"TK_Anchor"}) >= 1
  /\ sc'.TokenQueue # <<>>
  /\ Front(sc').Kind = "TK_Anchor"

(* C21: parseBlockNode never consumes a second Anchor for one node; when   *)
(* it meets one, the scanner has failed afterwards, the node returned is   *)
(* null, the Anchor is still the next token, and unless the scanner had    *)
(* failed before, the diagnostic "Already encountered an anchor for this   *)
(* node!" is the one that was added.                                       *)
C21_SecondAnchor ==
  [][ st'.op = "getRoot"
        => /\ KindCount(GotTokens, {"TK_Anchor"}) <= 1
           /\ SecondAnchorMet
                => /\ sc'.Failed
                   /\ st'.Root = "0"
                   /\ ~sc.Failed
                        => /\ Len(sc'.Diag) = Len(sc.Diag) + 1
                           /\ sc'.Diag[Len(sc'.Diag)].Msg = AnchorMessage ]_vars

(* C21, its case: the root was asked for in front of two Anchors. *)
C21_Witness ==
  /\ st.op = "getRoot"
  /\ st.Root = "0"
  /\ sc.Failed
  /\ sc.Diag # <<>>
  /\ sc.Diag[Len(sc.Diag)].Msg = AnchorMessage
  /\ sc.Delivered # <<>>
  /\ LastDelivered(sc).Kind = "TK_Anchor"
  /\ sc.TokenQueue # <<>>
  /\ Front(sc).Kind = "TK_Anchor"

(* D without the DocumentEnd tokens it ends with. *)
WithoutDocumentEnds(D) ==
  SubSeq(D, 1, Cardinality({i \in 1..Len(D) :
                              \E j \in i..Len(D) : D[j].Kind # "TK_DocumentEnd"}))

(* The tokens Document::skip took for the root: those of the document but  *)
(* the properties in front of the root and the DocumentEnd tokens behind.  *)
NodeTokens == WithoutDocumentEnds(AfterProperties(DocTokens))

(* How many collections D leaves open. *)
Depth(D) ==
  KindCount(D, BlockStarts \cup FlowStarts)
    - KindCount(D, {"TK_BlockEnd"} \cup FlowEnds)

(* The token that closes the collection K opens. *)
Closer(K) ==
  CASE K = "TK_FlowSequenceStart" -> "TK_FlowSequenceEnd"
    [] K = "TK_FlowMappingStart" -> "TK_FlowMappingEnd"
    [] OTHER -> "TK_BlockEnd"

(* C22: for a valid input, skip on an unvisited root consumes exactly the  *)
(* tokens of that node: a block or flow collection from its start token    *)
(* through the token that closes it (the first one to bring the nesting    *)
(* back to zero) and nothing behind it, a Scalar or Alias its one token, a *)
(* Null node none.  The caller has kept to the assertions: a second        *)
(* getRoot() in a build without them makes a document begin inside a node. *)
C22_SkipSpan ==
  (FreshSkip /\ ValidSoFar /\ sc.Build = "any" /\ NodeTokens # <<>>)
    => IF NodeTokens[1].Kind \in BlockStarts \cup FlowStarts
         THEN /\ NodeTokens[Len(NodeTokens)].Kind = Closer(NodeTokens[1].Kind)
              /\ Depth(NodeTokens) = 0
              /\ \A k \in 1..(Len(NodeTokens) - 1) :
                    Depth(SubSeq(NodeTokens, 1, k)) > 0
         ELSE /\ Len(NodeTokens) = 1
              /\ NodeTokens[1].Kind \in {"TK_Scalar", "TK_Alias"}

(* C22, its case: skip went through a root that has a collection inside. *)
C22_Witness ==
  /\ FreshSkip
  /\ ValidSoFar
  /\ sc.Build = "any"
  /\ KindCount(NodeTokens, BlockStarts \cup FlowStarts) >= 2
  /\ Depth(NodeTokens) = 0

(* C23: begin() is called by skip() alone, under "if (IsAtBeginning)", and *)
(* every iteration that stops has set IsAtEnd: no collection is ever left  *)
(* with neither IsAtBeginning nor IsAtEnd, so that along Document::skip,   *)
(* the increment of a parent and KeyValueNode::getValue the assertion of   *)
(* skip() holds wherever it is reached.                                    *)
C23_OnePass == ~sc.MidParse

(* C23, its case: Document::skip has gone through a collection inside a    *)
(* collection, the parent's increment calling skip() on it once more.      *)
C23_Witness ==
  /\ st.op = "skip"
  /\ ~sc.MidParse
  /\ sc.Abort = ""
  /\ KindCount(DocTokens, BlockStarts \cup FlowStarts) >= 2
  /\ KindCount(DocTokens, {"TK_BlockEnd"} \cup FlowEnds) >= 2

(* Input begins with the bytes P. *)
BeginsWith(P) == Len(Input) >= Len(P) /\ SubSeq(Input, 1, Len(P)) = P

Encoded(form, len) == st.EI = [form |-> form, len |-> len]

BOM_UTF8 == <<239, 187, 191>>

BOM_UTF32_LE == <<255, 254, 0, 0>>

BOM_UTF16_LE == <<255, 254>>

BOM_UTF16_BE == <<254, 255>>

BOM_UTF32_BE == <<0, 0, 254, 255>>

(* C24: getUnicodeEncoding returns a length in {0, 2, 3, 4} that is not    *)
(* more than the length of the input: EF BB BF gives (UTF8, 3),            *)
(* FF FE 00 00 (UTF32-LE, 4), FF FE otherwise (UTF16-LE, 2), FE FF         *)
(* (UTF16-BE, 2), 00 00 FE FF (UTF32-BE, 4) and the empty input            *)
(* (Unknown, 0).                                                           *)
C24_ByteOrderMark ==
  st.op = "getUnicodeEncoding"
    => /\ st.EI.len \in {0, 2, 3, 4}
       /\ st.EI.len <= Len(Input)
       /\ BeginsWith(BOM_UTF8) => Encoded("UEF_UTF8", 3)
       /\ BeginsWith(BOM_UTF32_LE) => Encoded("UEF_UTF32_LE", 4)
       /\ (BeginsWith(BOM_UTF16_LE) /\ ~BeginsWith(BOM_UTF32_LE))
            => Encoded("UEF_UTF16_LE", 2)
       /\ BeginsWith(BOM_UTF16_BE) => Encoded("UEF_UTF16_BE", 2)
       /\ BeginsWith(BOM_UTF32_BE) => Encoded("UEF_UTF32_BE", 4)
       /\ Input = <<>> => Encoded("UEF_Unknown", 0)

(* C24, its case: the encoding of an input that begins with FF FE 00 00    *)
(* has been asked for.                                                     *)
C24_Witness ==
  /\ st.op = "getUnicodeEncoding"
  /\ BeginsWith(BOM_UTF32_LE)
  /\ st.EI.len = 4

(* Input begins with no byte order mark. *)
NoBOM ==
  /\ ~BeginsWith(BOM_UTF8)
  /\ ~BeginsWith(BOM_UTF16_LE)
  /\ ~BeginsWith(BOM_UTF16_BE)
  /\ ~BeginsWith(BOM_UTF32_BE)

(* The patterns of null bytes: X000 is a byte that is not null and three   *)
(* null bytes, and so on.                                                  *)
Pattern000X ==
  Len(Input) >= 4 /\ Input[1] = 0 /\ Input[2] = 0 /\ Input[3] = 0
    /\ Input[4] # 0

PatternX000 ==
  Len(Input) >= 4 /\ Input[1] # 0 /\ Input[2] = 0 /\ Input[3] = 0
    /\ Input[4] = 0

Pattern0X == Len(Input) >= 2 /\ Input[1] = 0 /\ Input[2] # 0

PatternX0 == Len(Input) >= 2 /\ Input[1] # 0 /\ Input[2] = 0

(* The first byte is one that begins a byte order mark. *)
BeginsLikeBOM == Input # <<>> /\ Input[1] \in {239, 254, 255}

(* C25 as stated: without a byte order mark, 0 0 0 X gives UTF32-LE,       *)
(* X 0 0 0 UTF32-BE, 0 X UTF16-BE, X 0 UTF16-LE, and every other input     *)
(* that is not empty UTF8, all with length 0.                              *)
C25_Original ==
  (st.op = "getUnicodeEncoding" /\ NoBOM /\ Input # <<>>)
    => IF Pattern000X THEN Encoded("UEF_UTF32_LE", 0)
       ELSE IF PatternX000 THEN Encoded("UEF_UTF32_BE", 0)
       ELSE IF Pattern0X THEN Encoded("UEF_UTF16_BE", 0)
       ELSE IF PatternX0 THEN Encoded("UEF_UTF16_LE", 0)
       ELSE Encoded("UEF_UTF8", 0)

(* C25, amended: without a byte order mark the length is 0 and the form is *)
(* UTF32-BE for 0 0 0 X, UTF16-BE for 0 X, and Unknown for every other     *)
(* input whose first byte is null; Unknown for an input whose first byte   *)
(* is FF, FE or EF; and for any other first byte X, UTF32-LE for X 0 0 0,  *)
(* UTF16-LE for X 0 otherwise, and UTF8 for the rest.                      *)
C25_NullBytePatterns ==
  (st.op = "getUnicodeEncoding" /\ NoBOM /\ Input # <<>>)
    => IF Input[1] = 0
         THEN IF Pattern000X THEN Encoded("UEF_UTF32_BE", 0)
              ELSE IF Pattern0X THEN Encoded("UEF_UTF16_BE", 0)
              ELSE Encoded("UEF_Unknown", 0)
       ELSE IF BeginsLikeBOM THEN Encoded("UEF_Unknown", 0)
       ELSE IF PatternX000 THEN Encoded("UEF_UTF32_LE", 0)
       ELSE IF PatternX0 THEN Encoded("UEF_UTF16_LE", 0)
       ELSE Encoded("UEF_UTF8", 0)

(* C25, its case: the encoding of an input of three null bytes and one     *)
(* that is not null has been asked for.                                    *)
C25_Witness ==
  /\ st.op = "getUnicodeEncoding"
  /\ Pattern000X
  /\ Encoded("UEF_UTF32_BE", 0)

(* The string is valid UTF-8 and has no control character outside the      *)
(* escape table.                                                           *)
Escapable == \A k \in 1..Len(st.s) : st.s[k] \notin OtherChars

(* C26: for a string s that is valid UTF-8 and has no control character    *)
(* outside the escape table, escape does not throw, the document           *)
(* '"' + escape(s) + '"' scans without error as one Scalar that is the     *)
(* whole input, followed by StreamEnd, and getValue on it returns s.       *)
C26_EscapeRoundTrip ==
  Escapable
    => /\ st.op # "thrown"
       /\ ~sc.Failed
       /\ sc.Abort = ""
       /\ KindCount(sc.Delivered, {"TK_Error"}) = 0
       /\ Len(sc.Delivered) >= 2
            => sc.Delivered[2] = Tok("TK_Scalar", Range(0, Len(Input)))
       /\ Len(sc.Delivered) >= 3 => sc.Delivered[3].Kind = "TK_StreamEnd"
       /\ st.op = "getValue"
            => /\ st.end = "ok"
               /\ st.value = Flatten(st.s)

(* C26, its case: a string of a character of the escape table and one of   *)
(* four bytes has gone through escape, the scanner and getValue.           *)
C26_Witness ==
  /\ st.op = "getValue"
  /\ Len(st.s) = 2
  /\ st.s[1] \in TableChars
  /\ st.s[2] = <<240, 159, 152, 128>>
  /\ st.value = Flatten(st.s)

(* The input "a:\n%b": a directive whose name is not YAML. *)
OtherDirectiveInput == <<CH_a, CH_COLON, CH_LF, CH_PERCENT, CH_b>>

(* C27: a directive whose name is not YAML is consumed and scanning goes   *)
(* on: no Error token is produced for it, neither delivered nor at the     *)
(* head of the queue.                                                      *)
C27_DirectiveSkipped ==
  Input = OtherDirectiveInput
    => /\ KindCount(sc.Delivered, {"TK_Error"}) = 0
       /\ sc.TokenQueue # <<>> => Front(sc).Kind # "TK_Error"

(* What a caller reads in a document after getRoot(): begin() of a        *)
(* collection and the ++ that follow, each entry being skipped before the  *)
(* ++ as the iterator requires.  ScalarBytes is the text of the token last *)
(* delivered, TokenBytes that of the token T.                              *)
AtRootOf(I) ==
  Input = I /\ st.op = "getRoot" /\ sc.Abort = "" /\ sc.Build = "any"

TokenBytes(T) == SubSeq(Input, T.Range.b + 1, T.Range.b + T.Range.n)

ScalarBytes(s) == TokenBytes(s.Delivered[Len(s.Delivered)])

AfterEntry(r) == Node_nextEntry(Node_skip(r.s, r.n))

SequenceBegin(s, SeqType) ==
  {SequenceNode_increment(s, SeqType, InitWasPreviousTokenFlowEntry)}

SequenceNext(r, SeqType) ==
  {SequenceNode_increment(AfterEntry(r), SeqType, r.was)}

IsScalar(r, Bytes) == r.n = "ScalarNode" /\ ScalarBytes(r.s) = Bytes

(* The document "- - 1\n  - 2\n- 3\n": the root is a Block sequence, its   *)
(* first entry a sequence of InnerType of the scalars 1 and 2, its second  *)
(* entry the scalar 3, and Document::skip() finds no other document.       *)
NestedSequenceRead(InnerType) ==
  /\ st.Root = "ST_Block"
  /\ \E first \in SequenceBegin(sc, st.Root) :
       /\ first.n = InnerType
       /\ \E in1 \in SequenceBegin(first.s, first.n) :
            /\ IsScalar(in1, <<49>>)
            /\ \E in2 \in SequenceNext(in1, first.n) :
                 /\ IsScalar(in2, <<50>>)
                 /\ \E inEnd \in SequenceNext(in2, first.n) :
                      /\ inEnd.n = "none" /\ inEnd.atEnd
                      /\ \E second \in {SequenceNode_increment(
                                          Node_nextEntry(inEnd.s), st.Root,
                                          first.was)} :
                           /\ IsScalar(second, <<51>>)
                           /\ \E end \in SequenceNext(second, st.Root) :
                                /\ end.n = "none" /\ end.atEnd
                                /\ ~failed(end.s) /\ end.s.Abort = ""
                                /\ end.s.Diag = <<>>
                                /\ ~Document_skip(end.s, st.Root, TRUE).more

(* C28 as stated: "- - 1\n  - 2\n- 3\n" is one document whose root is a    *)
(* Block sequence of two entries, the first an Indentless sequence of the  *)
(* scalars 1 and 2, the second the scalar 3.                               *)
C28_Original ==
  AtRootOf(NestedSequenceInput) => NestedSequenceRead("ST_Indentless")

(* C28: "- - 1\n  - 2\n- 3\n" is one document whose root is a Block        *)
(* sequence of two entries, the first a Block sequence of the scalars 1    *)
(* and 2 (the scanner inserts a BlockSequenceStart at the second '-'),     *)
(* the second the scalar 3; no error is reported.                          *)
C28_NestedSequence ==
  AtRootOf(NestedSequenceInput) => NestedSequenceRead("ST_Block")

(* C28, its case: getRoot() has returned the root of that document and     *)
(* its first entry is a sequence.                                          *)
C28_Witness ==
  /\ AtRootOf(NestedSequenceInput)
  /\ st.Root = "ST_Block"
  /\ \E first \in SequenceBegin(sc, st.Root) : first.n \in SequenceTypes

(* The key and the value of the entry that MappingNode::increment left in  *)
(* r, read as KeyValueNode::skip reads them.                               *)
EntryKey(r) == {KeyValueNode_getKey(r.s)}

EntryValue(key) == {KeyValueNode_getValue(KeyValueNode_skip_node(key))}

(* C29: for "?: v\n" no error is reported and the root is a mapping with   *)
(* one entry, whose key is a Null node and whose value is the scalar v.    *)
C29_NullKey ==
  (Input = QuestionColonInput /\ st.op = "getRoot" /\ sc.Abort = "")
    => /\ ~failed(sc)
       /\ sc.Diag = <<>>
       /\ st.Root \in MappingTypes
       /\ \E entry \in {MappingNode_increment(sc, st.Root, FALSE)} :
            /\ entry.entry
            /\ \E key \in EntryKey(entry) :
                 /\ key.n = "NullNode"
                 /\ \E value \in EntryValue(key) : IsScalar(value, <<118>>)

(* The tokens of "key: [ a, b ]\nother: c\n" behind StreamStart. *)
FlowKinds ==
  <<"TK_BlockMappingStart", "TK_Key", "TK_Scalar", "TK_Value",
    "TK_FlowSequenceStart", "TK_Scalar", "TK_FlowEntry", "TK_Scalar",
    "TK_FlowSequenceEnd", "TK_Key", "TK_Scalar", "TK_Value", "TK_Scalar",
    "TK_BlockEnd", "TK_StreamEnd">>

(* The tokens delivered for the document, and the one at the head of the   *)
(* queue, are those of FlowKinds with the scalars key, a, b, other and c.  *)
FlowTokensIn(s) ==
  \E D \in {Append(SubSeq(s.Delivered, st.docStart + 1, Len(s.Delivered)),
                   Front(s))} :
    /\ s.Delivered[1].Kind = "TK_StreamStart"
    /\ st.docStart = 1
    /\ Len(D) = Len(FlowKinds)
    /\ \A i \in 1..Len(FlowKinds) : D[i].Kind = FlowKinds[i]
    /\ TokenBytes(D[3]) = <<107, 101, 121>>
    /\ TokenBytes(D[6]) = <<97>>
    /\ TokenBytes(D[8]) = <<98>>
    /\ TokenBytes(D[11]) = <<111, 116, 104, 101, 114>>
    /\ TokenBytes(D[13]) = <<99>>

(* The second entry of the root and the end of the document, s being the   *)
(* scanner after the first entry.                                          *)
FlowSecondEntry(s) ==
  \E entry2 \in {MappingNode_increment(Node_nextEntry(s), st.Root, TRUE)} :
    /\ entry2.entry
    /\ \E key2 \in EntryKey(entry2) :
         /\ IsScalar(key2, <<111, 116, 104, 101, 114>>)
         /\ \E value2 \in EntryValue(key2) :
              /\ IsScalar(value2, <<99>>)
              /\ \E end \in {MappingNode_increment(AfterEntry(value2),
                                                   st.Root, TRUE)} :
                   /\ ~end.entry /\ end.atEnd
                   /\ \E read \in {Document_skip(end.s, st.Root, TRUE)} :
                        /\ ~read.more
                        /\ ~failed(read.s) /\ read.s.Abort = ""
                        /\ read.s.Diag = <<>>
                        /\ FlowTokensIn(read.s)

(* C30: for "key: [ a, b ]\nother: c\n" the tokens of the document, behind *)
(* the StreamStart that Stream::begin() takes, are BlockMappingStart, Key, *)
(* Scalar key, Value, FlowSequenceStart, Scalar a, FlowEntry, Scalar b,    *)
(* FlowSequenceEnd, Key, Scalar other, Value, Scalar c, BlockEnd and       *)
(* StreamEnd; the root is one Block mapping of two entries, the value of   *)
(* key a Flow sequence of a and b, the value of other the scalar c.        *)
C30_FlowInMapping ==
  AtRootOf(FlowInMappingInput)
    => /\ st.Root = "MT_Block"
       /\ \E entry1 \in {MappingNode_increment(sc, st.Root, FALSE)} :
            /\ entry1.entry
            /\ \E key1 \in EntryKey(entry1) :
                 /\ IsScalar(key1, <<107, 101, 121>>)
                 /\ \E value1 \in EntryValue(key1) :
                      /\ value1.n = "ST_Flow"
                      /\ \E item1 \in SequenceBegin(value1.s, value1.n) :
                           /\ IsScalar(item1, <<97>>)
                           /\ \E item2 \in SequenceNext(item1, value1.n) :
                                /\ IsScalar(item2, <<98>>)
                                /\ \E itemEnd \in SequenceNext(item2, value1.n) :
                                     /\ itemEnd.n = "none" /\ itemEnd.atEnd
                                     /\ FlowSecondEntry(itemEnd.s)

(* The scanner has reported Message. *)
Reported(Message) == \E i \in 1..Len(sc.Diag) : sc.Diag[i].Msg = Message

UnrecognizedMessage == "Unrecognized character while tokenizing."

(* The input begins, in block context, with '?' or ':' and a character     *)
(* that is neither blank nor a break.                                      *)
IndicatorThenText ==
  /\ Len(Input) >= 2
  /\ Input[1] \in {CH_QUESTION, CH_COLON}
  /\ Input[2] \notin {CH_SP, CH_TAB, CH_LF, CH_CR}

(* C31: in block context a '?' or ':' that is not followed by a blank or a *)
(* break begins a plain scalar: the token behind StreamStart is a Scalar   *)
(* that begins there, and "Unrecognized character while tokenizing." is    *)
(* not reported for it.                                                    *)
C31_IndicatorStartsPlain ==
  IndicatorThenText
    => /\ ~Reported(UnrecognizedMessage)
       /\ Len(sc.Delivered) >= 2
            => /\ sc.Delivered[2].Kind = "TK_Scalar"
               /\ sc.Delivered[2].Range.b = 0

(* The tokens scanned so far, in the order they were scanned or inserted:  *)
(* those delivered, then those queued.                                     *)
Scanned ==
  sc.Delivered \o [i \in 1..Len(sc.TokenQueue) |-> sc.Arena[sc.TokenQueue[i]]]

(* C32: FlowLevel never goes below 0.  While no fetch has failed (a failed *)
(* fetch clears the queue) FlowLevel is the number of flow collections     *)
(* opened minus the number closed while FlowLevel was positive; a ']' or   *)
(* '}' at the beginning of the input, where FlowLevel is 0, is delivered   *)
(* as the closing token and leaves FlowLevel at 0.                         *)
C32_FlowLevelSaturates ==
  /\ sc.FlowLevel >= 0
  /\ KindCount(Scanned, {"TK_Error"}) = 0
       => sc.FlowLevel = LevelBehind(Scanned, 0)
  /\ (Input # <<>> /\ Input[1] \in {CH_RBRACKET, CH_RBRACE}
        /\ Len(sc.Delivered) >= 2)
       => /\ sc.Delivered[2].Kind = IF Input[1] = CH_RBRACKET
                                      THEN "TK_FlowSequenceEnd"
                                      ELSE "TK_FlowMappingEnd"
          /\ sc.FlowAt[2] = 0

(* C32, its case: a ']' that closes nothing has been delivered, and a '['  *)
(* behind it has been scanned.                                             *)
C32_Witness ==
  /\ Input = <<CH_LBRACKET, CH_RBRACKET, CH_RBRACKET, CH_LBRACKET>>
  /\ Len(sc.Delivered) = 4
  /\ sc.Delivered[4].Kind = "TK_FlowSequenceEnd"
  /\ sc.FlowAt[3] = 0
  /\ sc.FlowLevel = 1
  /\ KindCount(Scanned, {"TK_Error"}) = 0

CommaMessage == "Expected , between entries!"

ClosingMessage == "Could not find closing ]!"

(* The tokens and the diagnostics that took the scanner from s to t. *)
TokensBetween(s, t) ==
  SubSeq(t.Delivered, Len(s.Delivered) + 1, Len(t.Delivered))

DiagsBetween(s, t) == SubSeq(t.Diag, Len(s.Diag) + 1, Len(t.Diag))

(* One increment of a Flow sequence took the scanner from s to r.s, G are  *)
(* the tokens it consumed, H is the token it left at the head of the       *)
(* queue; IsFirst tells the increment of begin().  An entry was read as    *)
(* the first one or behind a FlowEntry; an iteration that did not end at   *)
(* the FlowSequenceEnd or at an Error token reported why.                  *)
FlowStep(s, r, G, H, IsFirst) ==
  IF r.n # "none"
    THEN /\ IsFirst \/ (G # <<>> /\ G[1].Kind = "TK_FlowEntry")
         /\ \A i \in 1..Len(r.s.Diag) :
              r.s.Diag[i].Msg \notin {CommaMessage, ClosingMessage}
  ELSE IF G # <<>> /\ G[Len(G)].Kind = "TK_FlowSequenceEnd"
    THEN r.atEnd /\ DiagsBetween(s, r.s) = <<>>
  ELSE IF H = "TK_Error" THEN r.atEnd
  ELSE IF H \in {"TK_StreamEnd", "TK_DocumentEnd", "TK_DocumentStart"}
    THEN /\ r.atEnd /\ failed(r.s)
         /\ Len(DiagsBetween(s, r.s)) = 1
         /\ r.s.Diag[Len(r.s.Diag)].Msg = ClosingMessage
  ELSE /\ r.atEnd /\ failed(r.s)
       /\ Len(DiagsBetween(s, r.s)) = 1
       /\ \/ /\ r.s.Diag[Len(r.s.Diag)].Msg = CommaMessage
             /\ ~IsFirst
             /\ G = <<>>
          \/ r.s.Diag[Len(r.s.Diag)].Msg = AnchorMessage

(* The iteration of a Flow sequence from the scanner s on, every increment *)
(* of it holding to FlowStep.                                              *)
RECURSIVE FlowWalk(_, _, _)
FlowWalk(s, Was, IsFirst) ==
  \A r \in {SequenceNode_increment(s, "ST_Flow", Was)} :
    \/ r.s.Abort # ""
    \/ /\ FlowStep(s, r, TokensBetween(s, r.s),
                   IF r.s.TokenQueue = <<>> THEN "none" ELSE Front(r.s).Kind,
                   IsFirst)
       /\ r.n # "none"
            => \A t \in {AfterEntry(r)} :
                 t.Abort # "" \/ failed(t) \/ FlowWalk(t, r.was, FALSE)

(* C33: in a Flow sequence an entry is read only as the first one or       *)
(* directly behind a FlowEntry; a value token behind an entry with no      *)
(* FlowEntry between them reports "Expected , between entries!" and ends   *)
(* the sequence; a StreamEnd, DocumentEnd or DocumentStart before the      *)
(* FlowSequenceEnd reports "Could not find closing ]!" and ends the        *)
(* sequence, that token still at the head of the queue.                    *)
C33_FlowSequenceEntries ==
  (st.op = "getRoot" /\ st.Root = "ST_Flow" /\ sc.Abort = "" /\ ~failed(sc))
    => FlowWalk(sc, InitWasPreviousTokenFlowEntry, TRUE)

(* C33, its case: the root is the Flow sequence "[a,a[", whose second      *)
(* entry stands behind a FlowEntry and whose third does not.               *)
C33_Witness ==
  /\ Input = <<CH_LBRACKET, CH_a, CH_COMMA, CH_a, CH_LBRACKET>>
  /\ st.op = "getRoot" /\ st.Root = "ST_Flow" /\ sc.Abort = "" /\ ~failed(sc)
  /\ \E e1 \in SequenceBegin(sc, st.Root) :
       /\ e1.n = "ScalarNode"
       /\ \E e2 \in SequenceNext(e1, st.Root) :
            /\ e2.n = "ScalarNode"
            /\ \E e3 \in SequenceNext(e2, st.Root) :
                 /\ e3.n = "none"
                 /\ e3.s.Diag # <<>>
                 /\ e3.s.Diag[Len(e3.s.Diag)].Msg = CommaMessage

(* The iteration of an Inline mapping from the scanner s on: begin() makes *)
(* the entry and consumes nothing; the ++ behind the entry (skipped, which *)
(* leaves the scanner t) ends the iteration and leaves the scanner as it   *)
(* is, the queue included.                                                 *)
InlineWalk(s) ==
  \A e1 \in {MappingNode_increment(s, "MT_Inline", FALSE)} :
    /\ e1.entry /\ ~e1.atEnd
    /\ TokensBetween(s, e1.s) = <<>>
    /\ \A t \in {Node_nextEntry(KeyValueNode_skip(e1.s))} :
         \/ t.Abort # ""
         \/ \A e2 \in {MappingNode_increment(t, "MT_Inline", TRUE)} :
              /\ ~e2.entry /\ e2.atEnd
              /\ e2.s = t

(* C34: a mapping of style Inline has exactly one entry: the first         *)
(* increment makes the entry, the second, the entry skipped, sets IsAtEnd  *)
(* and ends the iteration without a look at any further token.  The        *)
(* mapping is the root or the first entry of a Flow sequence at the root,  *)
(* and the scanner has not failed when the iteration begins.               *)
C34_InlineOneEntry ==
  (st.op = "getRoot" /\ sc.Abort = "" /\ ~failed(sc))
    => /\ st.Root = "MT_Inline" => InlineWalk(sc)
       /\ st.Root = "ST_Flow"
            => \A first \in SequenceBegin(sc, st.Root) :
                 (first.n = "MT_Inline" /\ first.s.Abort = ""
                    /\ ~failed(first.s))
                   => InlineWalk(first.s)

(* C34, its case: the first entry of the Flow sequence "[a: a]" is an      *)
(* Inline mapping, and the entry behind its one entry is the sequence's    *)
(* end at ']'.                                                             *)
C34_Witness ==
  /\ Input = <<CH_LBRACKET, CH_a, CH_COLON, CH_SP, CH_a, CH_RBRACKET>>
  /\ st.op = "getRoot" /\ st.Root = "ST_Flow" /\ sc.Abort = "" /\ ~failed(sc)
  /\ \E first \in SequenceBegin(sc, st.Root) :
       /\ first.n = "MT_Inline"
       /\ \E e1 \in {MappingNode_increment(first.s, "MT_Inline", FALSE)} :
            /\ e1.entry
            /\ \E t \in {Node_nextEntry(KeyValueNode_skip(e1.s))} :
                 /\ ~failed(t)
                 /\ LastDelivered(t).Kind = "TK_Scalar"
                 /\ ~MappingNode_increment(t, "MT_Inline", TRUE).entry

(* C35: getKey and getValue never return a null pointer: for the first     *)
(* entry of a mapping at the root, the key is a node, and so is the value  *)
(* read behind the skipped key, whatever token they meet (an Error token   *)
(* or a second Anchor behind the Key token included); KeyValueNode::skip   *)
(* therefore never calls skip() through a null pointer.                    *)
C35_KeyValueNeverNull ==
  (st.op = "getRoot" /\ st.Root \in MappingTypes /\ sc.Abort = ""
     /\ ~failed(sc))
    => \A e \in {MappingNode_increment(sc, st.Root, FALSE)} :
         (e.entry /\ e.s.Abort = "")
           => \A key \in EntryKey(e) :
                /\ key.n # "0"
                /\ \A value \in EntryValue(key) :
                     value.s.Abort = "" => value.n # "0"

(* C36: once getKey has produced the key node, every later getKey returns  *)
(* that node and consumes no token, and the same for getValue and the      *)
(* value node; neither call changes a member that is set.                  *)
C36_KeyValueIdempotent ==
  [][ /\ (st.op \in {"entry", "getKey", "getValue"} /\ st.Key # NullPointer)
        => /\ st'.op # "abort" => st'.Key = st.Key
           /\ st'.op = "getKey" => (st'.got = st.Key /\ sc' = sc)
      /\ (st.op \in {"entry", "getKey", "getValue"} /\ st.Value # NullPointer)
        => /\ st'.op # "abort" => st'.Value = st.Value
           /\ st'.op = "getValue" => (st'.got = st.Value /\ sc' = sc) ]_vars

(* C36, its case: getKey and getValue have each been called with their     *)
(* member set, the key and the value being two nodes read from tokens.     *)
C36_Witness ==
  /\ st.op = "getValue"
  /\ st.again
  /\ st.Key.n = "ScalarNode"
  /\ st.Value.n = "ST_Flow"
  /\ st.got = st.Value
  /\ st.made = 2
  /\ sc.Abort = ""
  /\ LastDelivered(sc).Kind = "TK_FlowSequenceStart"


(* C37: an alias or anchor indicator that no name character follows is     *)
(* reported with "Got empty alias or anchor": no Alias or Anchor token     *)
(* that consists of the indicator alone is scanned.                        *)
C37_EmptyAnchorIsError ==
  \A i \in 1..Len(Scanned) :
    Scanned[i].Kind \in {"TK_Alias", "TK_Anchor"} => Scanned[i].Range.n >= 2


(* The loop of yaml::scanTokens has ended. *)
ScanTokensEnded == st.op \in {"break", "return false"}

(* A step in which fetchMoreTokens returned true has moved the cursor      *)
(* forward or has left a token of one of the Kinds at the back of the      *)
(* queue.                                                                  *)
FetchAdvances(Kinds) ==
  (st'.op \in {"more", "ready"} /\ st'.fetch = "true")
    => \/ sc'.Current > sc.Current
       \/ /\ sc'.TokenQueue # <<>>
          /\ sc'.Arena[Back(sc')].Kind \in Kinds

C39_SkipTerminates ==
  [][ (st.Doc /\ st'.op = "increment" /\ st'.Doc)
        => Len(sc'.Delivered) > st.docStart ]_vars


(* C40: in every reachable scanner state the cursor is inside the input    *)
(* (Current <= End), and no byte behind the buffer's terminator has been   *)
(* read: the process has not stopped on such a read and has not gone on    *)
(* with what it found there.                                               *)
C40_CursorInside ==
  /\ sc.Current <= End
  /\ sc.Mem = "any"
  /\ sc.Abort # "segv"

====
